---- MODULE Spec2Model ----
(***************************************************************************)
(* A model of the platform chain's state core: the merkleized state store  *)
(* (vms/platformvm/state/state.go), the validator weight-diff arithmetic   *)
(* and the historical validator-set reconstruction                         *)
(* (vms/platformvm/validators/set.go), and the network client of the sync  *)
(* engine (unnamed/part_001).                                              *)
(*                                                                         *)
(* The module holds several specifications over one set of variables:      *)
(*   SpecWD     - ValidatorWeightDiff.Add applied to sequences of changes  *)
(*   SpecStore  - staging, reads, write, Commit and Abort                  *)
(*   SpecBatch  - CommitBatch, with its batch written or dropped           *)
(*   SpecSync   - a database opened, changed and opened again              *)
(*   SpecVal    - accepted blocks, diff logs and GetValidatorSet           *)
(*   SpecRepeat - GetValidatorSet asked twice for one height               *)
(*   SpecZero   - blocks that change delegators, some by zero net weight   *)
(*   SpecGenesis - a database opened with a genesis, and opened again      *)
(*   SpecTrack  - the recently-accepted window and GetMinimumHeight        *)
(*   SpecReplay - the backward replay under a context                      *)
(*   SpecIter   - the staker iterators under staged changes                *)
(*   SpecChains - subnets and chains added, committed and listed           *)
(*   SpecNet    - requests to peers, answered, failed and cancelled        *)
(*   SpecCaches - GetValidatorSet calls side by side on the subnet caches  *)
(*   SpecUptime - uptimes set, read and committed                          *)
(*   SpecRewards - reward UTXOs added, read and committed                  *)
(* Each specification moves only its own variables; the others stay at     *)
(* their initial value.                                                    *)
(***************************************************************************)
EXTENDS Integers, Sequences, FiniteSets, TLC

(***************************************************************************)
(* Bounds                                                                  *)
(***************************************************************************)

\* Width, in bits, of the unsigned integers of the model (uint64 in the code).
UintBits == 3

\* Number of Add calls in one run of the weight-diff specification.
NumOps == 3

\* math.MaxUint64, at the model's width.
MaxUint64 == 2 ^ UintBits - 1

(***************************************************************************)
(* Checked unsigned arithmetic (utils/math)                                *)
(***************************************************************************)

\* safemath.Add64: the sum, or (0, ErrOverflow).
Add64(a, b) ==
    IF a > MaxUint64 - b
    THEN [val |-> 0, err |-> TRUE]
    ELSE [val |-> a + b, err |-> FALSE]

\* safemath.Sub: the difference, or (0, ErrUnderflow).
Sub(a, b) ==
    IF a < b
    THEN [val |-> 0, err |-> TRUE]
    ELSE [val |-> a - b, err |-> FALSE]

\* safemath.AbsDiff
AbsDiff(a, b) == IF a > b THEN a - b ELSE b - a

(***************************************************************************)
(* ValidatorWeightDiff                                                     *)
(***************************************************************************)

ValidatorWeightDiff == [Decrease : BOOLEAN, Amount : 0..MaxUint64]

\* A mutant of Add: the sign is kept when the two amounts are equal.
AddKeepsSignOnEqual(v, negative, amount) ==
    IF v.Decrease = negative
    THEN LET r == Add64(v.Amount, amount)
         IN  [v |-> [Decrease |-> v.Decrease, Amount |-> r.val], err |-> r.err]
    ELSE IF v.Amount >= amount
         THEN [v |-> [Decrease |-> v.Decrease, Amount |-> v.Amount - amount],
               err |-> FALSE]
         ELSE [v |-> [Decrease |-> negative, Amount |-> AbsDiff(v.Amount, amount)],
               err |-> FALSE]

\* A mutant of Add: the sum wraps around instead of failing.
AddWraps(v, negative, amount) ==
    IF v.Decrease = negative
    THEN [v |-> [Decrease |-> v.Decrease,
                 Amount |-> (v.Amount + amount) % (MaxUint64 + 1)],
          err |-> FALSE]
    ELSE IF v.Amount > amount
         THEN [v |-> [Decrease |-> v.Decrease, Amount |-> v.Amount - amount],
               err |-> FALSE]
         ELSE [v |-> [Decrease |-> negative, Amount |-> AbsDiff(v.Amount, amount)],
               err |-> FALSE]

\* A mutant of Add: opposite signs subtract without ever flipping the sign.
AddNeverFlips(v, negative, amount) ==
    IF v.Decrease = negative
    THEN LET r == Add64(v.Amount, amount)
         IN  [v |-> [Decrease |-> v.Decrease, Amount |-> r.val], err |-> r.err]
    ELSE [v |-> [Decrease |-> v.Decrease, Amount |-> AbsDiff(v.Amount, amount)],
          err |-> FALSE]

\* (v *ValidatorWeightDiff) Add(negative, amount): the diff after the call and
\* whether the call returned an error.
Add(v, negative, amount) ==
    IF v.Decrease = negative
    THEN LET r == Add64(v.Amount, amount)
         IN  [v |-> [Decrease |-> v.Decrease, Amount |-> r.val], err |-> r.err]
    ELSE IF v.Amount > amount
         THEN [v |-> [Decrease |-> v.Decrease, Amount |-> v.Amount - amount],
               err |-> FALSE]
         ELSE [v |-> [Decrease |-> negative, Amount |-> AbsDiff(v.Amount, amount)],
               err |-> FALSE]

(***************************************************************************)
(* Go maps, optional values and the identifiers of the model               *)
(***************************************************************************)

\* A Go map is a function on the set of its keys.
EmptyMap == [k \in {} |-> 0]

Has(m, k) == k \in DOMAIN m

MapPut(m, k, v) == [x \in DOMAIN m \cup {k} |-> IF x = k THEN v ELSE m[x]]

MapDelete(m, k) == [x \in DOMAIN m \ {k} |-> m[x]]

\* A nil-able value: Nil, or Some(v).
Nil == <<>>

Some(v) == <<v>>

IsNil(o) == o = <<>>

Val(o) == o[1]

\* constants.PrimaryNetworkID, and the one other subnet of the model; a
\* subnet's ID is the ID of the CreateSubnetTx that made it.
PrimaryNetworkID == "P"

SubnetIDs == {"P", "S"}

NodeIDs == {"n1", "n2"}

UTXOIDs == {"u1", "u2"}

\* Largest block height of the model; block "b<h>" has height h.
MaxHeight == 3

Heights == 0..MaxHeight

BlkIDs == {<<"b", h>> : h \in Heights}

BlockAt(h) == <<"b", h>>

\* block.Block.Height()
Height(blkID) == blkID[2]

\* ids.Empty, as a block ID
EmptyID == <<"b", -1>>

\* Chain times of the model.
MaxTime == 1

Times == 0..MaxTime

(***************************************************************************)
(* Stakers and their transactions                                          *)
(***************************************************************************)

\* The BLS key of a node's primary-network validator; subnet validators and
\* delegators carry none (Staker.PublicKey is nil).
NoKey == <<>>

KeyOf(nodeID) == <<"bls", nodeID>>

\* Weight of a validator and of a delegator of the model.
ValidatorWeight == 2

DelegatorWeight == 1

\* Staker: the fields of state.Staker the store reads.
MkStaker(txID, nodeID, subnetID, weight, key, isValidator) ==
    [TxID |-> txID, NodeID |-> nodeID, SubnetID |-> subnetID, Weight |-> weight,
     PublicKey |-> key, IsValidator |-> isValidator, PotentialReward |-> 1]

\* The validator of a node on a subnet: only primary-network validators
\* register a BLS key.
ValidatorOf(subnetID, nodeID) ==
    MkStaker(<<"v", subnetID, nodeID>>, nodeID, subnetID, ValidatorWeight,
             IF subnetID = PrimaryNetworkID THEN KeyOf(nodeID) ELSE NoKey, TRUE)

\* The delegator to a node on a subnet.
DelegatorOf(subnetID, nodeID) ==
    MkStaker(<<"d", subnetID, nodeID>>, nodeID, subnetID, DelegatorWeight,
             NoKey, FALSE)

StakerKeys == SubnetIDs \X NodeIDs

AllValidators == {ValidatorOf(k[1], k[2]) : k \in StakerKeys}

\* Another delegator to the node, of the same weight.
SecondDelegatorOf(subnetID, nodeID) ==
    MkStaker(<<"d2", subnetID, nodeID>>, nodeID, subnetID, DelegatorWeight,
             NoKey, FALSE)

AllDelegators ==
    {DelegatorOf(k[1], k[2]) : k \in StakerKeys}
        \cup {SecondDelegatorOf(k[1], k[2]) : k \in StakerKeys}

AllStakers == AllValidators \cup AllDelegators

StakerByTxID(txID) == CHOOSE st \in AllStakers : st.TxID = txID

\* CreateSubnetTx.Owner of the subnet's creation transaction, and another owner.
Owners == {"owner1", "owner2"}

TxOwner == "owner1"

(***************************************************************************)
(* State                                                                   *)
(***************************************************************************)

VARIABLES
    \* weight-diff runs
    wdStart,    \* the diff both runs start from
    wdOps,    \* the Add calls, as a sequence of [negative, amount]
    wdPerm,    \* the order in which run B applies them
    wdA,    \* run A: [v, err, n] - diff, failed, calls made
    wdB,    \* run B, likewise
    wdLast,    \* the last Add call: [called, pre, negative, amount, post, err]
    \* the fields of state (state.go:234-307)
    validators,    \* the validator manager: (subnet, node) -> [Weight, PublicKey, TxID]
    db,    \* baseDB as read through the versiondb: the database plus uncommitted writes
    disk,    \* the database under the versiondb
    currentStakers,    \* baseStakers: [validators, validatorDiffs]
    pendingStakers,    \* baseStakers: [validators, validatorDiffs]
    delegateeRewardCache,    \* (node, subnet) -> amount
    modifiedDelegateeReward,    \* set of (node, subnet)
    modifiedUTXOs,    \* UTXO ID -> Nil | Some(utxo)
    utxoCache,    \* UTXO ID -> Nil | Some(utxo)
    chainTime,
    latestComittedChainTime,
    lastAcceptedBlkID,
    latestCommittedLastAcceptedBlkID,
    lastAcceptedHeight,
    modifiedSupplies,    \* subnet -> supply
    suppliesCache,    \* subnet -> Nil | Some(supply)
    subnetOwners,    \* subnet -> owner
    subnetOwnerCache,    \* subnet -> Nil | Some(owner)
    addedPermissionedSubnets,    \* sequence of CreateSubnetTx IDs
    permissionedSubnetCache,    \* Nil | Some(sequence of CreateSubnetTx IDs)
    addedElasticSubnets,    \* subnet -> TransformSubnetTx ID
    elasticSubnetCache,    \* subnet -> Nil | Some(tx)
    addedChains,    \* subnet -> sequence of CreateChainTx IDs
    chainCache,    \* subnet -> sequence of CreateChainTx IDs
    addedBlocks,    \* block ID -> block
    blockCache,    \* block ID -> Nil | Some(block)
    addedBlockIDs,    \* height -> block ID
    blockIDCache,    \* height -> block ID (EmptyID: not in the database)
    addedTxs,    \* tx ID -> status
    txCache,    \* tx ID -> Nil | Some(status)
    localUptimesCache,    \* node -> subnet -> [Duration, lastUpdated]
    modifiedLocalUptimes,    \* node -> set of subnets
    addedRewardUTXOs,    \* tx ID -> sequence of UTXO IDs
    rewardUTXOsCache,    \* tx ID -> sequence of UTXO IDs
    \* the field of validators.set (set.go:77-94)
    caches,    \* (subnet, height) -> the validator set cached for it
    set,    \* the other fields of validators.set: [cfg, clk, recentlyAccepted]
    net,    \* the networkClient, and the calls of Request and RequestAny
    \* observation
    ret,    \* the last call and what it returned
    hist    \* what the calls so far did: [staged, live, snaps, seen, n]
            \*   staged: the UTXOs added since the last Commit
            \*   live: the UTXOs added, then committed by the next Commit with
            \*         success, and not named by a DeleteUTXO since
            \*   snaps: the validator sets as they were after each block
            \*   n: the number of calls made

wdVars == <<wdStart, wdOps, wdPerm, wdA, wdB, wdLast>>

stateVars ==
    <<validators, db, disk, currentStakers, pendingStakers,
      delegateeRewardCache, modifiedDelegateeReward, modifiedUTXOs,
      utxoCache, chainTime, latestComittedChainTime, lastAcceptedBlkID,
      latestCommittedLastAcceptedBlkID, lastAcceptedHeight,
      modifiedSupplies, suppliesCache, subnetOwners, subnetOwnerCache,
      addedPermissionedSubnets, permissionedSubnetCache,
      addedElasticSubnets, elasticSubnetCache, addedChains, chainCache,
      addedBlocks, blockCache, addedBlockIDs, blockIDCache, addedTxs,
      txCache, localUptimesCache, modifiedLocalUptimes, addedRewardUTXOs,
      rewardUTXOsCache>>

\* What the store's calls leave alone: the validators.set and the network
\* client.
setVars == <<caches, set, net>>

vars == <<wdVars, stateVars, setVars, ret, hist>>

\* The fields of state as one record, so that the methods compose.
Cur ==
    [validators |-> validators, db |-> db, disk |-> disk,
     currentStakers |-> currentStakers,
     pendingStakers |-> pendingStakers,
     delegateeRewardCache |-> delegateeRewardCache,
     modifiedDelegateeReward |-> modifiedDelegateeReward,
     modifiedUTXOs |-> modifiedUTXOs, utxoCache |-> utxoCache,
     chainTime |-> chainTime,
     latestComittedChainTime |-> latestComittedChainTime,
     lastAcceptedBlkID |-> lastAcceptedBlkID,
     latestCommittedLastAcceptedBlkID |-> latestCommittedLastAcceptedBlkID,
     lastAcceptedHeight |-> lastAcceptedHeight,
     modifiedSupplies |-> modifiedSupplies,
     suppliesCache |-> suppliesCache, subnetOwners |-> subnetOwners,
     subnetOwnerCache |-> subnetOwnerCache,
     addedPermissionedSubnets |-> addedPermissionedSubnets,
     permissionedSubnetCache |-> permissionedSubnetCache,
     addedElasticSubnets |-> addedElasticSubnets,
     elasticSubnetCache |-> elasticSubnetCache,
     addedChains |-> addedChains, chainCache |-> chainCache,
     addedBlocks |-> addedBlocks, blockCache |-> blockCache,
     addedBlockIDs |-> addedBlockIDs, blockIDCache |-> blockIDCache,
     addedTxs |-> addedTxs, txCache |-> txCache,
     localUptimesCache |-> localUptimesCache,
     modifiedLocalUptimes |-> modifiedLocalUptimes,
     addedRewardUTXOs |-> addedRewardUTXOs,
     rewardUTXOsCache |-> rewardUTXOsCache]

\* The fields are those of the record r.
FieldsAre(r) ==
    /\ validators = r.validators
    /\ db = r.db
    /\ disk = r.disk
    /\ currentStakers = r.currentStakers
    /\ pendingStakers = r.pendingStakers
    /\ delegateeRewardCache = r.delegateeRewardCache
    /\ modifiedDelegateeReward = r.modifiedDelegateeReward
    /\ modifiedUTXOs = r.modifiedUTXOs
    /\ utxoCache = r.utxoCache
    /\ chainTime = r.chainTime
    /\ latestComittedChainTime = r.latestComittedChainTime
    /\ lastAcceptedBlkID = r.lastAcceptedBlkID
    /\ latestCommittedLastAcceptedBlkID = r.latestCommittedLastAcceptedBlkID
    /\ lastAcceptedHeight = r.lastAcceptedHeight
    /\ modifiedSupplies = r.modifiedSupplies
    /\ suppliesCache = r.suppliesCache
    /\ subnetOwners = r.subnetOwners
    /\ subnetOwnerCache = r.subnetOwnerCache
    /\ addedPermissionedSubnets = r.addedPermissionedSubnets
    /\ permissionedSubnetCache = r.permissionedSubnetCache
    /\ addedElasticSubnets = r.addedElasticSubnets
    /\ elasticSubnetCache = r.elasticSubnetCache
    /\ addedChains = r.addedChains
    /\ chainCache = r.chainCache
    /\ addedBlocks = r.addedBlocks
    /\ blockCache = r.blockCache
    /\ addedBlockIDs = r.addedBlockIDs
    /\ blockIDCache = r.blockIDCache
    /\ addedTxs = r.addedTxs
    /\ txCache = r.txCache
    /\ localUptimesCache = r.localUptimesCache
    /\ modifiedLocalUptimes = r.modifiedLocalUptimes
    /\ addedRewardUTXOs = r.addedRewardUTXOs
    /\ rewardUTXOsCache = r.rewardUTXOsCache

\* The fields after a call that left them as the record r.
Assign(r) ==
    /\ validators' = r.validators
    /\ db' = r.db
    /\ disk' = r.disk
    /\ currentStakers' = r.currentStakers
    /\ pendingStakers' = r.pendingStakers
    /\ delegateeRewardCache' = r.delegateeRewardCache
    /\ modifiedDelegateeReward' = r.modifiedDelegateeReward
    /\ modifiedUTXOs' = r.modifiedUTXOs
    /\ utxoCache' = r.utxoCache
    /\ chainTime' = r.chainTime
    /\ latestComittedChainTime' = r.latestComittedChainTime
    /\ lastAcceptedBlkID' = r.lastAcceptedBlkID
    /\ latestCommittedLastAcceptedBlkID' = r.latestCommittedLastAcceptedBlkID
    /\ lastAcceptedHeight' = r.lastAcceptedHeight
    /\ modifiedSupplies' = r.modifiedSupplies
    /\ suppliesCache' = r.suppliesCache
    /\ subnetOwners' = r.subnetOwners
    /\ subnetOwnerCache' = r.subnetOwnerCache
    /\ addedPermissionedSubnets' = r.addedPermissionedSubnets
    /\ permissionedSubnetCache' = r.permissionedSubnetCache
    /\ addedElasticSubnets' = r.addedElasticSubnets
    /\ elasticSubnetCache' = r.elasticSubnetCache
    /\ addedChains' = r.addedChains
    /\ chainCache' = r.chainCache
    /\ addedBlocks' = r.addedBlocks
    /\ blockCache' = r.blockCache
    /\ addedBlockIDs' = r.addedBlockIDs
    /\ blockIDCache' = r.blockIDCache
    /\ addedTxs' = r.addedTxs
    /\ txCache' = r.txCache
    /\ localUptimesCache' = r.localUptimesCache
    /\ modifiedLocalUptimes' = r.modifiedLocalUptimes
    /\ addedRewardUTXOs' = r.addedRewardUTXOs
    /\ rewardUTXOsCache' = r.rewardUTXOsCache

(***************************************************************************)
(* The database                                                            *)
(*                                                                         *)
(* Every section of the store - the merkle trie included - is a prefix of  *)
(* baseDB, a versiondb: writes stay in the versiondb's memory until a      *)
(* batch of them is written to the database below, and Abort drops them.   *)
(* `db` is what a read through the versiondb sees and `disk` is the        *)
(* database below it.  Both are records of the sections.                   *)
(***************************************************************************)

EmptyDB ==
    [\* the merkle trie (merkleDB)
     utxos |-> {},                 \* utxosSectionPrefix: UTXO IDs
     txs |-> {},                   \* txsSectionPrefix: tx IDs
     chainTime |-> Nil,            \* merkleChainTimeKey
     lastAccepted |-> Nil,         \* merkleLastAcceptedBlkIDKey
     supplies |-> EmptyMap,        \* merkleSuppliesPrefix: subnet -> supply
     subnets |-> {},               \* permissionedSubnetSectionPrefix
     elastic |-> EmptyMap,         \* elasticSubnetSectionPrefix
     owners |-> EmptyMap,          \* subnetOwnersPrefix
     chains |-> {},                \* chainsSectionPrefix: <<subnet, tx>>
     currentStakers |-> EmptyMap,  \* currentStakersSectionPrefix: tx -> data
     pendingStakers |-> EmptyMap,  \* pendingStakersSectionPrefix
     delegateeRewards |-> EmptyMap,
     \* the other sections
     initialized |-> FALSE,        \* singletonDB
     blocks |-> {},                \* blockDB
     blockIDs |-> EmptyMap,        \* blockIDDB: height -> block ID
     utxoIndex |-> {},             \* indexedUTXOsDB
     uptimes |-> EmptyMap,         \* localUptimesDB: <<node, subnet>> -> uptime
     weightDiffs |-> EmptyMap,     \* <<subnet, height, node>> -> diff
     pkDiffs |-> EmptyMap,         \* <<height, node>> -> key or NoKey
     rewardUTXOs |-> EmptyMap]     \* tx -> set of UTXO IDs

\* The merkle root commits to the content of the trie: two tries have the
\* same root exactly when they hold the same keys and values.
MerkleRoot(d) ==
    [utxos |-> d.utxos, txs |-> d.txs, chainTime |-> d.chainTime,
     lastAccepted |-> d.lastAccepted, supplies |-> d.supplies,
     subnets |-> d.subnets, elastic |-> d.elastic, owners |-> d.owners,
     chains |-> d.chains, currentStakers |-> d.currentStakers,
     pendingStakers |-> d.pendingStakers,
     delegateeRewards |-> d.delegateeRewards]

\* One operation of a merkle batch (database.BatchOp), by section.
ApplyBatchOp(d, op) ==
    CASE op.sec = "chainTime" -> [d EXCEPT !.chainTime = Some(op.val)]
      [] op.sec = "lastAccepted" -> [d EXCEPT !.lastAccepted = Some(op.val)]
      [] op.sec = "supplies" -> [d EXCEPT !.supplies = MapPut(@, op.key, op.val)]
      [] op.sec = "subnets" -> [d EXCEPT !.subnets = @ \cup {op.key}]
      [] op.sec = "owners" -> [d EXCEPT !.owners = MapPut(@, op.key, op.val)]
      [] op.sec = "elastic" -> [d EXCEPT !.elastic = MapPut(@, op.key, op.val)]
      [] op.sec = "chains" -> [d EXCEPT !.chains = @ \cup {op.key}]
      [] op.sec = "currentStakers" ->
            [d EXCEPT !.currentStakers =
                IF op.del THEN MapDelete(@, op.key) ELSE MapPut(@, op.key, op.val)]
      [] op.sec = "pendingStakers" ->
            [d EXCEPT !.pendingStakers =
                IF op.del THEN MapDelete(@, op.key) ELSE MapPut(@, op.key, op.val)]
      [] op.sec = "delegateeRewards" ->
            [d EXCEPT !.delegateeRewards = MapPut(@, op.key, op.val)]
      [] op.sec = "utxos" ->
            [d EXCEPT !.utxos = IF op.del THEN @ \ {op.key} ELSE @ \cup {op.key}]

BatchOp(sec, key, val, del) == [sec |-> sec, key |-> key, val |-> val, del |-> del]

\* A merkle view over the batch, committed: the operations in order.
RECURSIVE ApplyBatch(_, _)
ApplyBatch(d, ops) ==
    IF ops = <<>> THEN d ELSE ApplyBatch(ApplyBatchOp(d, Head(ops)), Tail(ops))

\* The elements of a finite set as a sequence, in some order.
RECURSIVE SetToSeq(_)
SetToSeq(S) ==
    IF S = {} THEN <<>>
    ELSE LET x == CHOOSE x \in S : TRUE IN <<x>> \o SetToSeq(S \ {x})

(***************************************************************************)
(* newState                                                                *)
(***************************************************************************)

\* time.Time{}: the zero time, which no chain time equals.
ZeroTime == -1

\* newBaseStakers
NewBaseStakers ==
    [validators |-> EmptyMap, stakers |-> {}, validatorDiffs |-> EmptyMap]

\* newState: empty staging maps and caches over the given database.
NewState(d) ==
    [validators |-> EmptyMap, db |-> d, disk |-> d,
     currentStakers |-> NewBaseStakers, pendingStakers |-> NewBaseStakers,
     delegateeRewardCache |-> EmptyMap, modifiedDelegateeReward |-> EmptyMap,
     modifiedUTXOs |-> EmptyMap, utxoCache |-> EmptyMap,
     chainTime |-> ZeroTime, latestComittedChainTime |-> ZeroTime,
     lastAcceptedBlkID |-> EmptyID, latestCommittedLastAcceptedBlkID |-> EmptyID,
     lastAcceptedHeight |-> 0,
     modifiedSupplies |-> EmptyMap, suppliesCache |-> EmptyMap,
     subnetOwners |-> EmptyMap, subnetOwnerCache |-> EmptyMap,
     addedPermissionedSubnets |-> <<>>, permissionedSubnetCache |-> Nil,
     addedElasticSubnets |-> EmptyMap, elasticSubnetCache |-> EmptyMap,
     addedChains |-> EmptyMap, chainCache |-> EmptyMap,
     addedBlocks |-> EmptyMap, blockCache |-> EmptyMap,
     addedBlockIDs |-> EmptyMap, blockIDCache |-> EmptyMap,
     addedTxs |-> EmptyMap, txCache |-> EmptyMap,
     localUptimesCache |-> EmptyMap, modifiedLocalUptimes |-> EmptyMap,
     addedRewardUTXOs |-> EmptyMap, rewardUTXOsCache |-> EmptyMap]

(***************************************************************************)
(* Reads and staging calls.  A call takes the fields as a record s; a read *)
(* returns [s, val, err], since reads fill caches.                         *)
(***************************************************************************)

OK == "nil"

ErrNotFound == "database.ErrNotFound"

Result(s, val, err) == [s |-> s, val |-> val, err |-> err]

\* state.GetUTXO reaches merkleDB.Get when neither modifiedUTXOs nor the
\* cache knows the UTXO (lines 883-895).
GetUTXOReadsDB(s, utxoID) ==
    ~Has(s.modifiedUTXOs, utxoID) /\ ~Has(s.utxoCache, utxoID)

\* state.GetUTXO
GetUTXO(s, utxoID) ==
    IF Has(s.modifiedUTXOs, utxoID)
    THEN IF IsNil(s.modifiedUTXOs[utxoID])
         THEN Result(s, Nil, ErrNotFound)
         ELSE Result(s, s.modifiedUTXOs[utxoID], OK)
    ELSE IF Has(s.utxoCache, utxoID)
    THEN IF IsNil(s.utxoCache[utxoID])
         THEN Result(s, Nil, ErrNotFound)
         ELSE Result(s, s.utxoCache[utxoID], OK)
    ELSE IF utxoID \in s.db.utxos
    THEN Result([s EXCEPT !.utxoCache = MapPut(@, utxoID, Some(utxoID))],
                Some(utxoID), OK)
    ELSE Result([s EXCEPT !.utxoCache = MapPut(@, utxoID, Nil)], Nil, ErrNotFound)

\* state.AddUTXO
AddUTXO(s, utxoID) == [s EXCEPT !.modifiedUTXOs = MapPut(@, utxoID, Some(utxoID))]

\* state.DeleteUTXO
DeleteUTXO(s, utxoID) == [s EXCEPT !.modifiedUTXOs = MapPut(@, utxoID, Nil)]

\* state.GetTx
GetTx(s, txID) ==
    IF Has(s.addedTxs, txID)
    THEN Result(s, Some(txID), OK)
    ELSE IF Has(s.txCache, txID)
    THEN IF IsNil(s.txCache[txID])
         THEN Result(s, Nil, ErrNotFound)
         ELSE Result(s, Some(txID), OK)
    ELSE IF txID \in s.db.txs
    THEN Result([s EXCEPT !.txCache = MapPut(@, txID, Some(txID))], Some(txID), OK)
    ELSE Result([s EXCEPT !.txCache = MapPut(@, txID, Nil)], Nil, ErrNotFound)

\* state.AddTx
AddTx(s, txID) == [s EXCEPT !.addedTxs = MapPut(@, txID, "Committed")]

\* The ID of the CreateSubnetTx that made a subnet (the subnet's ID).
SubnetTx(subnetID) == <<"subnet", subnetID, "">>

ChainTx(subnetID) == <<"chain", subnetID, "">>

TransformTx(subnetID) == <<"transform", subnetID, "">>

\* state.SetSubnetOwner
SetSubnetOwner(s, subnetID, owner) ==
    [s EXCEPT !.subnetOwners = MapPut(@, subnetID, owner)]

\* state.GetSubnetOwner: staged, cached, stored, or else the owner named by
\* the subnet's creation transaction, which the call then stages.
GetSubnetOwner(s, subnetID) ==
    IF Has(s.subnetOwners, subnetID)
    THEN Result(s, Some(s.subnetOwners[subnetID]), OK)
    ELSE IF Has(s.subnetOwnerCache, subnetID)
    THEN IF IsNil(s.subnetOwnerCache[subnetID])
         THEN Result(s, Nil, ErrNotFound)
         ELSE Result(s, s.subnetOwnerCache[subnetID], OK)
    ELSE IF Has(s.db.owners, subnetID)
    THEN Result([s EXCEPT !.subnetOwnerCache =
                     MapPut(@, subnetID, Some(s.db.owners[subnetID]))],
                Some(s.db.owners[subnetID]), OK)
    ELSE LET tx == GetTx(s, SubnetTx(subnetID))
         IN  IF tx.err # OK
             THEN Result([tx.s EXCEPT !.subnetOwnerCache = MapPut(@, subnetID, Nil)],
                         Nil, tx.err)
             ELSE Result(SetSubnetOwner(tx.s, subnetID, TxOwner), Some(TxOwner), OK)

\* state.SetTimestamp
SetTimestamp(s, tm) == [s EXCEPT !.chainTime = tm]

\* state.SetLastAccepted
SetLastAccepted(s, blkID) == [s EXCEPT !.lastAcceptedBlkID = blkID]

\* state.SetHeight
SetHeight(s, height) == [s EXCEPT !.lastAcceptedHeight = height]

\* state.AddStatelessBlock
AddStatelessBlock(s, blkID) == [s EXCEPT !.addedBlocks = MapPut(@, blkID, blkID)]

\* state.GetStatelessBlock
GetStatelessBlock(s, blkID) ==
    IF Has(s.addedBlocks, blkID)
    THEN Result(s, Some(blkID), OK)
    ELSE IF Has(s.blockCache, blkID)
    THEN IF IsNil(s.blockCache[blkID])
         THEN Result(s, Nil, ErrNotFound)
         ELSE Result(s, s.blockCache[blkID], OK)
    ELSE IF blkID \in s.db.blocks
    THEN Result([s EXCEPT !.blockCache = MapPut(@, blkID, Some(blkID))],
                Some(blkID), OK)
    ELSE Result([s EXCEPT !.blockCache = MapPut(@, blkID, Nil)], Nil, ErrNotFound)

\* state.GetCurrentSupply
GetCurrentSupply(s, subnetID) ==
    IF Has(s.modifiedSupplies, subnetID)
    THEN Result(s, Some(s.modifiedSupplies[subnetID]), OK)
    ELSE IF Has(s.suppliesCache, subnetID)
    THEN IF IsNil(s.suppliesCache[subnetID])
         THEN Result(s, Nil, ErrNotFound)
         ELSE Result(s, s.suppliesCache[subnetID], OK)
    ELSE IF Has(s.db.supplies, subnetID)
    THEN Result([s EXCEPT !.suppliesCache =
                     MapPut(@, subnetID, Some(s.db.supplies[subnetID]))],
                Some(s.db.supplies[subnetID]), OK)
    ELSE Result([s EXCEPT !.suppliesCache = MapPut(@, subnetID, Nil)],
                Nil, ErrNotFound)

\* state.SetCurrentSupply
SetCurrentSupply(s, subnetID, cs) ==
    [s EXCEPT !.modifiedSupplies = MapPut(@, subnetID, cs)]

\* state.AddSubnet
AddSubnet(s, txID) ==
    [s EXCEPT !.addedPermissionedSubnets = Append(@, txID)]

\* state.AddSubnetTransformation
AddSubnetTransformation(s, subnetID) ==
    [s EXCEPT !.addedElasticSubnets = MapPut(@, subnetID, TransformTx(subnetID))]

\* state.AddChain
AddChain(s, subnetID, txID) ==
    [s EXCEPT !.addedChains =
        MapPut(@, subnetID,
               Append(IF Has(@, subnetID) THEN @[subnetID] ELSE <<>>, txID))]

\* state.AddRewardUTXO
AddRewardUTXO(s, txID, utxoID) ==
    [s EXCEPT !.addedRewardUTXOs =
        MapPut(@, txID,
               Append(IF Has(@, txID) THEN @[txID] ELSE <<>>, utxoID))]

\* state.GetRewardUTXOs: the UTXOs staged for the transaction if there are
\* any, else the cached ones, else the ones of the database, which are then
\* cached.
GetRewardUTXOs(s, txID) ==
    IF Has(s.addedRewardUTXOs, txID)
    THEN Result(s, Some(s.addedRewardUTXOs[txID]), OK)
    ELSE IF Has(s.rewardUTXOsCache, txID)
    THEN Result(s, Some(s.rewardUTXOsCache[txID]), OK)
    ELSE LET utxos == IF Has(s.db.rewardUTXOs, txID)
                      THEN SetToSeq(s.db.rewardUTXOs[txID]) ELSE <<>>
         IN  Result([s EXCEPT !.rewardUTXOsCache = MapPut(@, txID, utxos)],
                    Some(utxos), OK)

\* state.SetUptime
SetUptime(s, vdrID, subnetID, upDuration, lastUpdated) ==
    LET nodeUptimes ==
            IF Has(s.localUptimesCache, vdrID)
            THEN s.localUptimesCache[vdrID] ELSE EmptyMap
        updated ==
            IF Has(s.modifiedLocalUptimes, vdrID)
            THEN s.modifiedLocalUptimes[vdrID] ELSE {}
    IN  [s EXCEPT
            !.localUptimesCache =
                MapPut(@, vdrID,
                       MapPut(nodeUptimes, subnetID,
                              [Duration |-> upDuration, lastUpdated |-> lastUpdated])),
            !.modifiedLocalUptimes = MapPut(@, vdrID, updated \cup {subnetID})]

\* state.SetDelegateeReward
SetDelegateeReward(s, subnetID, vdrID, amount) ==
    LET nodeRewards ==
            IF Has(s.delegateeRewardCache, vdrID)
            THEN s.delegateeRewardCache[vdrID] ELSE EmptyMap
        updated ==
            IF Has(s.modifiedDelegateeReward, vdrID)
            THEN s.modifiedDelegateeReward[vdrID] ELSE {}
    IN  [s EXCEPT
            !.delegateeRewardCache =
                MapPut(@, vdrID, MapPut(nodeRewards, subnetID, amount)),
            !.modifiedDelegateeReward = MapPut(@, vdrID, updated \cup {subnetID})]

\* state.GetDelegateeReward reaches merkleDB.Get when the cache has no entry
\* for the node and subnet (lines 1602-1608).
GetDelegateeRewardReadsDB(s, subnetID, vdrID) ==
    ~(Has(s.delegateeRewardCache, vdrID)
        /\ Has(s.delegateeRewardCache[vdrID], subnetID))

\* state.GetDelegateeReward: a miss of the database returns its error and
\* records nothing.
GetDelegateeReward(s, subnetID, vdrID) ==
    IF ~GetDelegateeRewardReadsDB(s, subnetID, vdrID)
    THEN Result(s, Some(s.delegateeRewardCache[vdrID][subnetID]), OK)
    ELSE IF ~Has(s.db.delegateeRewards, <<vdrID, subnetID>>)
    THEN Result(s, Nil, ErrNotFound)
    ELSE LET delegateeReward == s.db.delegateeRewards[<<vdrID, subnetID>>]
             nodeRewards ==
                 IF Has(s.delegateeRewardCache, vdrID)
                 THEN s.delegateeRewardCache[vdrID] ELSE EmptyMap
         IN  Result([s EXCEPT !.delegateeRewardCache =
                        MapPut(@, vdrID,
                               MapPut(nodeRewards, subnetID, delegateeReward))],
                    Some(delegateeReward), OK)

\* state.GetUptime reaches localUptimesDB.Get when the cache has no entry for
\* the node and subnet (lines 2240-2246).
GetUptimeReadsDB(s, vdrID, subnetID) ==
    ~(Has(s.localUptimesCache, vdrID)
        /\ Has(s.localUptimesCache[vdrID], subnetID))

\* state.GetUptime: a hit of the database replaces the node's map in the
\* cache by one that holds this subnet only; a miss records nothing.
GetUptime(s, vdrID, subnetID) ==
    IF ~GetUptimeReadsDB(s, vdrID, subnetID)
    THEN Result(s, Some(s.localUptimesCache[vdrID][subnetID]), OK)
    ELSE IF ~Has(s.db.uptimes, <<vdrID, subnetID>>)
    THEN Result(s, Nil, ErrNotFound)
    ELSE LET upTm == s.db.uptimes[<<vdrID, subnetID>>]
         IN  Result([s EXCEPT !.localUptimesCache =
                        MapPut(@, vdrID, MapPut(EmptyMap, subnetID, upTm))],
                    Some(upTm), OK)

(***************************************************************************)
(* baseStakers: the current and the pending staker set, each with the      *)
(* changes made to it since the last write (its validatorDiffs).           *)
(***************************************************************************)

\* baseStaker: a node's validator (or Nil) and its delegators.
NewBaseStaker == [validator |-> Nil, delegators |-> {}]

\* diffValidator: validatorStatus is unmodified, added or deleted.
NewDiffValidator ==
    [validatorStatus |-> "unmodified", validator |-> Nil,
     addedDelegators |-> {}, deletedDelegators |-> {}]

\* A map of maps, read with a default.
Get2(m, a, b, default) ==
    IF Has(m, a) /\ Has(m[a], b) THEN m[a][b] ELSE default

Put2(m, a, b, v) ==
    MapPut(m, a, MapPut(IF Has(m, a) THEN m[a] ELSE EmptyMap, b, v))

\* Staker.EndTime, which NewCurrentStaker and NewPendingStaker take from the
\* staker's transaction: the first delegator of a node ends before the
\* others, which all end together.
EndTime(staker) == IF staker.TxID[1] = "d" THEN 1 ELSE 2

\* The order of the transaction IDs.
TxOrder == SetToSeq({st.TxID : st \in AllStakers})

TxRank(txID) == CHOOSE i \in DOMAIN TxOrder : TxOrder[i] = txID

\* Staker.Less: by end time, and by transaction ID among equal end times.
Less(a, b) ==
    \/ EndTime(a) < EndTime(b)
    \/ EndTime(a) = EndTime(b) /\ TxRank(a.TxID) < TxRank(b.TxID)

\* btree.ReplaceOrInsert on baseStakers.stakers: the tree holds one staker
\* of a key.
ReplaceOrInsert(tree, staker) ==
    {x \in tree : Less(x, staker) \/ Less(staker, x)} \cup {staker}

\* btree.Delete
TreeDelete(tree, staker) ==
    {x \in tree : Less(x, staker) \/ Less(staker, x)}

\* baseStakers.GetStakerIterator: the tree's stakers in ascending order.
RECURSIVE GetStakerIterator(_)
GetStakerIterator(tree) ==
    IF tree = {} THEN <<>>
    ELSE LET first == CHOOSE x \in tree : \A y \in tree : ~Less(y, x)
         IN  <<first>> \o GetStakerIterator(tree \ {first})

\* baseStakers.pruneValidator: an entry with no validator and no delegator
\* is dropped, and so is a subnet with no entry.
PruneValidator(vs, subnetID, nodeID) ==
    LET e == Get2(vs, subnetID, nodeID, NewBaseStaker)
    IN  IF ~Has(vs, subnetID) \/ ~IsNil(e.validator) \/ e.delegators # {}
        THEN vs
        ELSE LET sub == MapDelete(vs[subnetID], nodeID)
             IN  IF DOMAIN sub = {} THEN MapDelete(vs, subnetID)
                 ELSE MapPut(vs, subnetID, sub)

\* baseStakers.GetValidator
GetValidator(bs, subnetID, nodeID) ==
    Get2(bs.validators, subnetID, nodeID, NewBaseStaker).validator

\* baseStakers.PutValidator
PutValidator(bs, staker) ==
    LET e == Get2(bs.validators, staker.SubnetID, staker.NodeID, NewBaseStaker)
        d == Get2(bs.validatorDiffs, staker.SubnetID, staker.NodeID, NewDiffValidator)
    IN  [validators |->
            Put2(bs.validators, staker.SubnetID, staker.NodeID,
                 [e EXCEPT !.validator = Some(staker)]),
         stakers |-> ReplaceOrInsert(bs.stakers, staker),
         validatorDiffs |->
            Put2(bs.validatorDiffs, staker.SubnetID, staker.NodeID,
                 [d EXCEPT !.validatorStatus = "added", !.validator = Some(staker)])]

\* baseStakers.DeleteValidator
DeleteValidator(bs, staker) ==
    LET e == Get2(bs.validators, staker.SubnetID, staker.NodeID, NewBaseStaker)
        d == Get2(bs.validatorDiffs, staker.SubnetID, staker.NodeID, NewDiffValidator)
    IN  [validators |->
            PruneValidator(
                Put2(bs.validators, staker.SubnetID, staker.NodeID,
                     [e EXCEPT !.validator = Nil]),
                staker.SubnetID, staker.NodeID),
         stakers |-> TreeDelete(bs.stakers, staker),
         validatorDiffs |->
            Put2(bs.validatorDiffs, staker.SubnetID, staker.NodeID,
                 [d EXCEPT !.validatorStatus = "deleted", !.validator = Some(staker)])]

\* A PutDelegator that leaves the delegator out of the tree of all stakers.
PutDelegatorUnlisted(bs, staker) ==
    LET e == Get2(bs.validators, staker.SubnetID, staker.NodeID, NewBaseStaker)
        d == Get2(bs.validatorDiffs, staker.SubnetID, staker.NodeID, NewDiffValidator)
    IN  [validators |->
            Put2(bs.validators, staker.SubnetID, staker.NodeID,
                 [e EXCEPT !.delegators = @ \cup {staker}]),
         stakers |-> bs.stakers,
         validatorDiffs |->
            Put2(bs.validatorDiffs, staker.SubnetID, staker.NodeID,
                 [d EXCEPT !.addedDelegators = @ \cup {staker}])]

\* baseStakers.PutDelegator
PutDelegator(bs, staker) ==
    LET e == Get2(bs.validators, staker.SubnetID, staker.NodeID, NewBaseStaker)
        d == Get2(bs.validatorDiffs, staker.SubnetID, staker.NodeID, NewDiffValidator)
    IN  [validators |->
            Put2(bs.validators, staker.SubnetID, staker.NodeID,
                 [e EXCEPT !.delegators = @ \cup {staker}]),
         stakers |-> ReplaceOrInsert(bs.stakers, staker),
         validatorDiffs |->
            Put2(bs.validatorDiffs, staker.SubnetID, staker.NodeID,
                 [d EXCEPT !.addedDelegators = @ \cup {staker}])]

\* baseStakers.DeleteDelegator
DeleteDelegator(bs, staker) ==
    LET e == Get2(bs.validators, staker.SubnetID, staker.NodeID, NewBaseStaker)
        d == Get2(bs.validatorDiffs, staker.SubnetID, staker.NodeID, NewDiffValidator)
    IN  [validators |->
            PruneValidator(
                Put2(bs.validators, staker.SubnetID, staker.NodeID,
                     [e EXCEPT !.delegators = @ \ {staker}]),
                staker.SubnetID, staker.NodeID),
         stakers |-> TreeDelete(bs.stakers, staker),
         validatorDiffs |->
            Put2(bs.validatorDiffs, staker.SubnetID, staker.NodeID,
                 [d EXCEPT !.deletedDelegators = @ \cup {staker}])]

\* Staker.StartTime of the model's stakers.
StartTime == 0

\* state.GetCurrentValidator: [s, val, err]
GetCurrentValidator(s, subnetID, nodeID) ==
    LET v == GetValidator(s.currentStakers, subnetID, nodeID)
    IN  Result(s, v, IF IsNil(v) THEN ErrNotFound ELSE OK)

\* state.PutCurrentValidator: the validator also gets an uptime entry and a
\* delegatee-reward entry.
PutCurrentValidator(s, staker) ==
    SetDelegateeReward(
        SetUptime([s EXCEPT !.currentStakers = PutValidator(@, staker)],
                  staker.NodeID, staker.SubnetID, 0, StartTime),
        staker.SubnetID, staker.NodeID, 0)

\* state.DeleteCurrentValidator
DeleteCurrentValidator(s, staker) ==
    [s EXCEPT !.currentStakers = DeleteValidator(@, staker)]

\* state.PutCurrentDelegator
PutCurrentDelegator(s, staker) ==
    [s EXCEPT !.currentStakers = PutDelegator(@, staker)]

\* state.DeleteCurrentDelegator
DeleteCurrentDelegator(s, staker) ==
    [s EXCEPT !.currentStakers = DeleteDelegator(@, staker)]

\* state.PutPendingValidator
PutPendingValidator(s, staker) ==
    [s EXCEPT !.pendingStakers = PutValidator(@, staker)]

\* state.DeletePendingValidator
DeletePendingValidator(s, staker) ==
    [s EXCEPT !.pendingStakers = DeleteValidator(@, staker)]

(***************************************************************************)
(* validators.Manager (snow/validators): the live validator sets           *)
(***************************************************************************)

VKey(subnetID, nodeID) == <<subnetID, nodeID>>

\* Manager.Count
Count(m, subnetID) == Cardinality({k \in DOMAIN m : k[1] = subnetID})

\* Manager.AddStaker: fails on a zero weight and on a node already in the set.
AddStaker(m, subnetID, nodeID, pk, txID, weight) ==
    IF weight = 0 \/ Has(m, VKey(subnetID, nodeID))
    THEN [m |-> m, err |-> TRUE]
    ELSE [m |-> MapPut(m, VKey(subnetID, nodeID),
                       [Weight |-> weight, PublicKey |-> pk, TxID |-> txID]),
          err |-> FALSE]

\* Manager.AddWeight: fails on a zero weight, a missing node and an overflow.
AddWeight(m, subnetID, nodeID, weight) ==
    LET k == VKey(subnetID, nodeID)
    IN  IF weight = 0 \/ ~Has(m, k) \/ Add64(m[k].Weight, weight).err
        THEN [m |-> m, err |-> TRUE]
        ELSE [m |-> MapPut(m, k, [m[k] EXCEPT !.Weight = @ + weight]),
              err |-> FALSE]

\* Manager.RemoveWeight: fails on a zero weight, a missing node and an
\* underflow; a node whose weight reaches zero leaves the set.
RemoveWeight(m, subnetID, nodeID, weight) ==
    LET k == VKey(subnetID, nodeID)
    IN  IF weight = 0 \/ ~Has(m, k) \/ Sub(m[k].Weight, weight).err
        THEN [m |-> m, err |-> TRUE]
        ELSE IF m[k].Weight = weight
        THEN [m |-> MapDelete(m, k), err |-> FALSE]
        ELSE [m |-> MapPut(m, k, [m[k] EXCEPT !.Weight = @ - weight]),
              err |-> FALSE]

(***************************************************************************)
(* write: the staker diffs                                                 *)
(*                                                                         *)
(* Go ranges over a map in an unspecified order.  The order in which the   *)
(* staker diffs are visited is an input: a sequence of (subnet, node) keys *)
(* that holds every key of validatorDiffs once.                            *)
(***************************************************************************)

DiffKeys(bs) ==
    {k \in SubnetIDs \X NodeIDs :
        Has(bs.validatorDiffs, k[1]) /\ Has(bs.validatorDiffs[k[1]], k[2])}

\* The sequences that hold every element of S once.
Orders(S) ==
    {o \in [1..Cardinality(S) -> S] : \A i, j \in DOMAIN o : o[i] = o[j] => i = j}

\* The subnets of an order, each at its first appearance.
RECURSIVE SubnetOrder(_)
SubnetOrder(order) ==
    IF order = <<>> THEN <<>>
    ELSE <<Head(order)[1]>> \o
         SelectSeq(SubnetOrder(Tail(order)), LAMBDA x : x # Head(order)[1])

\* stakersData
StakersData(txBytes, potentialReward) ==
    [TxBytes |-> txBytes, PotentialReward |-> potentialReward]

\* processCurrentStakers, lines 1722-1738: the added delegators of a node.
RECURSIVE ProcessAddedDelegators(_, _, _)
ProcessAddedDelegators(acc, weightKey, stakers) ==
    IF stakers = <<>> \/ acc.err # OK THEN acc
    ELSE LET staker == Head(stakers)
             tx == GetTx(acc.s, staker.TxID)
             sum == Add(acc.weights[weightKey], FALSE, staker.Weight)
         IN  IF tx.err # OK
             THEN [acc EXCEPT !.s = tx.s,
                              !.err = "failed loading current delegator tx"]
             ELSE ProcessAddedDelegators(
                    [acc EXCEPT
                        !.s = tx.s,
                        !.stakers = MapPut(@, staker.TxID,
                            StakersData(Some(staker.TxID), staker.PotentialReward)),
                        !.weights = MapPut(@, weightKey, sum.v),
                        !.err = IF sum.err
                                THEN "failed to increase node weight diff" ELSE OK],
                    weightKey, Tail(stakers))

\* processCurrentStakers, lines 1740-1749: the deleted delegators of a node.
RECURSIVE ProcessDeletedDelegators(_, _, _)
ProcessDeletedDelegators(acc, weightKey, stakers) ==
    IF stakers = <<>> \/ acc.err # OK THEN acc
    ELSE LET staker == Head(stakers)
             sum == Add(acc.weights[weightKey], TRUE, staker.Weight)
         IN  ProcessDeletedDelegators(
                [acc EXCEPT
                    !.stakers = MapPut(@, staker.TxID, StakersData(Nil, 0)),
                    !.weights = MapPut(@, weightKey, sum.v),
                    !.err = IF sum.err
                            THEN "failed to decrease node weight diff" ELSE OK],
                weightKey, Tail(stakers))

\* processCurrentStakers, lines 1664-1720: the validator of a node's diff.
ProcessValidatorDiff(acc, weightKey, validatorDiff) ==
    LET a0 == [acc EXCEPT
                !.valset = MapPut(@, weightKey, validatorDiff),
                !.weights = MapPut(@, weightKey,
                    [Decrease |-> validatorDiff.validatorStatus = "deleted",
                     Amount |-> 0])]
        v == Val(validatorDiff.validator)
        tx == GetTx(acc.s, v.TxID)
    IN  CASE validatorDiff.validatorStatus = "added" ->
                IF tx.err # OK
                THEN [a0 EXCEPT !.s = tx.s,
                                !.err = "failed loading current validator tx"]
                ELSE [a0 EXCEPT
                        !.s = tx.s,
                        !.stakers = MapPut(@, v.TxID,
                            StakersData(Some(v.TxID), v.PotentialReward)),
                        !.weights = MapPut(@, weightKey,
                            [Decrease |-> FALSE, Amount |-> v.Weight]),
                        !.bls = IF v.PublicKey # NoKey
                                THEN MapPut(@, weightKey[2], NoKey) ELSE @]
          [] validatorDiff.validatorStatus = "deleted" ->
                [a0 EXCEPT
                    !.stakers = MapPut(@, v.TxID, StakersData(Nil, 0)),
                    !.weights = MapPut(@, weightKey,
                        [Decrease |-> TRUE, Amount |-> v.Weight]),
                    !.bls = IF v.PublicKey # NoKey
                            THEN MapPut(@, weightKey[2], v.PublicKey) ELSE @]
          [] OTHER -> a0

\* processCurrentStakers, lines 1663-1750: the nodes of one subnet.
RECURSIVE ProcessCurrentNodes(_, _, _)
ProcessCurrentNodes(acc, keys, subnetValidatorDiffs) ==
    IF keys = <<>> \/ acc.err # OK THEN acc
    ELSE LET weightKey == Head(keys)
             validatorDiff == subnetValidatorDiffs[weightKey[2]]
         IN  ProcessCurrentNodes(
                ProcessDeletedDelegators(
                    ProcessAddedDelegators(
                        ProcessValidatorDiff(acc, weightKey, validatorDiff),
                        weightKey, SetToSeq(validatorDiff.addedDelegators)),
                    weightKey, SetToSeq(validatorDiff.deletedDelegators)),
                Tail(keys), subnetValidatorDiffs)

\* processCurrentStakers, lines 1661-1751: the subnets, each taken out of
\* validatorDiffs before its nodes are visited.
RECURSIVE ProcessCurrentSubnets(_, _, _)
ProcessCurrentSubnets(acc, subnets, order) ==
    IF subnets = <<>> \/ acc.err # OK THEN acc
    ELSE LET subnetID == Head(subnets)
             subnetValidatorDiffs == acc.s.currentStakers.validatorDiffs[subnetID]
             s1 == [acc.s EXCEPT
                        !.currentStakers.validatorDiffs = MapDelete(@, subnetID)]
         IN  ProcessCurrentSubnets(
                ProcessCurrentNodes([acc EXCEPT !.s = s1],
                    SelectSeq(order, LAMBDA k : k[1] = subnetID),
                    subnetValidatorDiffs),
                Tail(subnets), order)

\* state.processCurrentStakers: [s, stakers, weights, bls, valset, err]
processCurrentStakers(s, order) ==
    ProcessCurrentSubnets(
        [s |-> s, stakers |-> EmptyMap, weights |-> EmptyMap, bls |-> EmptyMap,
         valset |-> EmptyMap, err |-> OK],
        SubnetOrder(order), order)

\* processPendingStakers, lines 1780-1792: the added delegators of a node.
RECURSIVE ProcessPendingAdded(_, _)
ProcessPendingAdded(acc, stakers) ==
    IF stakers = <<>> \/ acc.err # OK THEN acc
    ELSE LET staker == Head(stakers)
             tx == GetTx(acc.s, staker.TxID)
         IN  IF tx.err # OK
             THEN [acc EXCEPT !.s = tx.s,
                              !.err = "failed loading pending delegator tx"]
             ELSE ProcessPendingAdded(
                    [acc EXCEPT
                        !.s = tx.s,
                        !.stakers = MapPut(@, staker.TxID,
                                           StakersData(Some(staker.TxID), 0))],
                    Tail(stakers))

\* processPendingStakers, lines 1762-1778: the validator of a node's diff.
ProcessPendingValidator(acc, validatorDiff) ==
    LET v == Val(validatorDiff.validator)
        tx == GetTx(acc.s, v.TxID)
    IN  CASE validatorDiff.validatorStatus = "added" ->
                IF tx.err # OK
                THEN [acc EXCEPT !.s = tx.s,
                                 !.err = "failed loading pending validator tx"]
                ELSE [acc EXCEPT
                        !.s = tx.s,
                        !.stakers = MapPut(@, v.TxID, StakersData(Some(v.TxID), 0))]
          [] validatorDiff.validatorStatus = "deleted" ->
                [acc EXCEPT !.stakers = MapPut(@, v.TxID, StakersData(Nil, 0))]
          [] OTHER -> acc

\* The TxBytes-nil entries of the deleted delegators (lines 1794-1799).
PendingDeleted(stakers, deleted) ==
    [txID \in DOMAIN stakers \cup {d.TxID : d \in deleted} |->
        IF \E d \in deleted : d.TxID = txID
        THEN StakersData(Nil, 0) ELSE stakers[txID]]

\* processPendingStakers, lines 1759-1800: the nodes of one subnet.
RECURSIVE ProcessPendingNodes(_, _, _)
ProcessPendingNodes(acc, keys, subnetValidatorDiffs) ==
    IF keys = <<>> \/ acc.err # OK THEN acc
    ELSE LET validatorDiff == subnetValidatorDiffs[Head(keys)[2]]
             a1 == ProcessPendingAdded(
                        ProcessPendingValidator(acc, validatorDiff),
                        SetToSeq(validatorDiff.addedDelegators))
         IN  ProcessPendingNodes(
                IF a1.err # OK THEN a1
                ELSE [a1 EXCEPT !.stakers =
                        PendingDeleted(@, validatorDiff.deletedDelegators)],
                Tail(keys), subnetValidatorDiffs)

RECURSIVE ProcessPendingSubnets(_, _, _)
ProcessPendingSubnets(acc, subnets, order) ==
    IF subnets = <<>> \/ acc.err # OK THEN acc
    ELSE LET subnetID == Head(subnets)
             subnetValidatorDiffs == acc.s.pendingStakers.validatorDiffs[subnetID]
             s1 == [acc.s EXCEPT
                        !.pendingStakers.validatorDiffs = MapDelete(@, subnetID)]
         IN  ProcessPendingSubnets(
                ProcessPendingNodes([acc EXCEPT !.s = s1],
                    SelectSeq(order, LAMBDA k : k[1] = subnetID),
                    subnetValidatorDiffs),
                Tail(subnets), order)

\* state.processPendingStakers: [s, stakers, err]
processPendingStakers(s, order) ==
    ProcessPendingSubnets([s |-> s, stakers |-> EmptyMap, err |-> OK],
                          SubnetOrder(order), order)

(***************************************************************************)
(* write: the merkle batch                                                 *)
(*                                                                         *)
(* getMerkleChanges hands one slice of batch operations to its sections.   *)
(* A section takes and returns a == [s, ops]: the store and that slice.    *)
(***************************************************************************)

\* A writeMetadata that writes the chain time on every call.
writeMetadataAlways(a) ==
    [s |-> [a.s EXCEPT
              !.latestComittedChainTime = a.s.chainTime,
              !.latestCommittedLastAcceptedBlkID = a.s.lastAcceptedBlkID,
              !.modifiedSupplies = EmptyMap],
     ops |-> a.ops \o <<BatchOp("chainTime", "", a.s.chainTime, FALSE)>>]

\* state.writeMetadata
writeMetadata(a) ==
    LET timeOps == IF a.s.chainTime # a.s.latestComittedChainTime
                   THEN <<BatchOp("chainTime", "", a.s.chainTime, FALSE)>>
                   ELSE <<>>
        blkOps == IF a.s.lastAcceptedBlkID # a.s.latestCommittedLastAcceptedBlkID
                  THEN <<BatchOp("lastAccepted", "", a.s.lastAcceptedBlkID, FALSE)>>
                  ELSE <<>>
        subnets == SetToSeq(DOMAIN a.s.modifiedSupplies)
        supplyOps == [i \in DOMAIN subnets |->
                        BatchOp("supplies", subnets[i],
                                a.s.modifiedSupplies[subnets[i]], FALSE)]
    IN  [s |-> [a.s EXCEPT
                  !.latestComittedChainTime = a.s.chainTime,
                  !.latestCommittedLastAcceptedBlkID = a.s.lastAcceptedBlkID,
                  !.modifiedSupplies = EmptyMap,
                  !.suppliesCache =
                      [k \in DOMAIN @ \cup DOMAIN a.s.modifiedSupplies |->
                          IF Has(a.s.modifiedSupplies, k)
                          THEN Some(a.s.modifiedSupplies[k]) ELSE @[k]]],
         ops |-> a.ops \o timeOps \o blkOps \o supplyOps]

\* state.writePermissionedSubnets
\* state.GetSubnets: [s, val, err]; the cache, once filled, is what it returns.
GetSubnets(s) ==
    IF ~IsNil(s.permissionedSubnetCache)
    THEN Result(s, s.permissionedSubnetCache, OK)
    ELSE LET subnets == SetToSeq(s.db.subnets) \o s.addedPermissionedSubnets
         IN  Result([s EXCEPT !.permissionedSubnetCache = Some(subnets)],
                    Some(subnets), OK)

\* state.GetChains: [s, val, err]
GetChains(s, subnetID) ==
    IF Has(s.chainCache, subnetID)
    THEN Result(s, Some(s.chainCache[subnetID]), OK)
    ELSE LET chains ==
                SetToSeq({k[2] : k \in {c \in s.db.chains : c[1] = subnetID}})
                    \o (IF Has(s.addedChains, subnetID)
                        THEN s.addedChains[subnetID] ELSE <<>>)
         IN  Result([s EXCEPT !.chainCache = MapPut(@, subnetID, chains)],
                    Some(chains), OK)

writePermissionedSubnets(a) ==
    [s |-> [a.s EXCEPT !.addedPermissionedSubnets = <<>>],
     ops |-> a.ops \o
             [i \in DOMAIN a.s.addedPermissionedSubnets |->
                BatchOp("subnets", a.s.addedPermissionedSubnets[i], "", FALSE)]]

\* state.writeSubnetOwners
writeSubnetOwners(a) ==
    LET subnets == SetToSeq(DOMAIN a.s.subnetOwners)
    IN  [s |-> [a.s EXCEPT
                  !.subnetOwners = EmptyMap,
                  !.subnetOwnerCache =
                      [k \in DOMAIN @ \cup DOMAIN a.s.subnetOwners |->
                          IF Has(a.s.subnetOwners, k)
                          THEN Some(a.s.subnetOwners[k]) ELSE @[k]]],
         ops |-> a.ops \o
                 [i \in DOMAIN subnets |->
                    BatchOp("owners", subnets[i], a.s.subnetOwners[subnets[i]],
                            FALSE)]]

\* state.writeElasticSubnets
writeElasticSubnets(a) ==
    LET subnets == SetToSeq(DOMAIN a.s.addedElasticSubnets)
    IN  [s |-> [a.s EXCEPT
                  !.addedElasticSubnets = EmptyMap,
                  !.elasticSubnetCache =
                      [k \in DOMAIN @ \ DOMAIN a.s.addedElasticSubnets |-> @[k]]],
         ops |-> a.ops \o
                 [i \in DOMAIN subnets |->
                    BatchOp("elastic", subnets[i],
                            a.s.addedElasticSubnets[subnets[i]], FALSE)]]

\* The operations that put the chains of the subnets.
RECURSIVE ChainOps(_, _)
ChainOps(added, subnets) ==
    IF subnets = <<>> THEN <<>>
    ELSE [i \in DOMAIN added[Head(subnets)] |->
            BatchOp("chains", <<Head(subnets), added[Head(subnets)][i]>>,
                    "", FALSE)]
         \o ChainOps(added, Tail(subnets))

\* state.writeChains
writeChains(a) ==
    [s |-> [a.s EXCEPT !.addedChains = EmptyMap],
     ops |-> a.ops \o ChainOps(a.s.addedChains, SetToSeq(DOMAIN a.s.addedChains))]

\* The operations of writeCurrentStakers and writePendingStakers: a staker
\* whose TxBytes is nil is deleted, any other is put.
StakerOps(sec, data) ==
    LET txIDs == SetToSeq(DOMAIN data)
    IN  [i \in DOMAIN txIDs |->
            BatchOp(sec, txIDs[i], data[txIDs[i]], IsNil(data[txIDs[i]].TxBytes))]

\* state.writeCurrentStakers
writeCurrentStakers(a, currentData) ==
    [a EXCEPT !.ops = @ \o StakerOps("currentStakers", currentData)]

\* state.writePendingStakers
writePendingStakers(a, pendingData) ==
    [a EXCEPT !.ops = @ \o StakerOps("pendingStakers", pendingData)]

\* state.writeDelegateeRewards
writeDelegateeRewards(a) ==
    LET keys == SetToSeq({k \in NodeIDs \X SubnetIDs :
                            /\ Has(a.s.modifiedDelegateeReward, k[1])
                            /\ k[2] \in a.s.modifiedDelegateeReward[k[1]]})
    IN  [s |-> [a.s EXCEPT !.modifiedDelegateeReward = EmptyMap],
         ops |-> a.ops \o
                 [i \in DOMAIN keys |->
                    BatchOp("delegateeRewards", keys[i],
                            a.s.delegateeRewardCache[keys[i][1]][keys[i][2]],
                            FALSE)]]

\* state.writeUTXOs, one UTXO of modifiedUTXOs (lines 1939-1978), with the
\* index it keeps in indexedUTXOsDB (writeUTXOsIndex).
WriteUTXO(a, utxoID) ==
    LET utxo == a.s.modifiedUTXOs[utxoID]
        s1 == [a.s EXCEPT !.modifiedUTXOs = MapDelete(@, utxoID)]
        got == GetUTXO(s1, utxoID)
    IN  IF IsNil(utxo)
        THEN IF got.err = OK
             THEN [s |-> [got.s EXCEPT
                            !.utxoCache = MapPut(@, utxoID, Nil),
                            !.db.utxoIndex = @ \ {utxoID}],
                   ops |-> Append(a.ops, BatchOp("utxos", utxoID, "", TRUE))]
             ELSE [s |-> got.s, ops |-> a.ops]
        ELSE [s |-> [s1 EXCEPT !.db.utxoIndex = @ \cup {utxoID}],
              ops |-> Append(a.ops, BatchOp("utxos", utxoID, Val(utxo), FALSE))]

RECURSIVE WriteUTXOsOf(_, _)
WriteUTXOsOf(a, utxoIDs) ==
    IF utxoIDs = <<>> THEN a
    ELSE WriteUTXOsOf(WriteUTXO(a, Head(utxoIDs)), Tail(utxoIDs))

\* state.writeUTXOs
writeUTXOs(a) == WriteUTXOsOf(a, SetToSeq(DOMAIN a.s.modifiedUTXOs))

\* state.getMerkleChanges: every section runs, each appending to the batch.
getMerkleChanges(s, currentData, pendingData) ==
    writeUTXOs(
     writeDelegateeRewards(
      writePendingStakers(
       writeCurrentStakers(
        writeChains(
         writeElasticSubnets(
          writeSubnetOwners(
           writePermissionedSubnets(
            writeMetadata([s |-> s, ops |-> <<>>]))))),
        currentData),
       pendingData)))

\* The storage faults a write can meet: none, or the commit of the merkle
\* view to the trie returning an error.
Faults == {"none", "merkle"}

\* writeMerkleState, lines 1832-1843: a view over the changes, committed to
\* the trie.
CommitToDB(changes, fault) ==
    IF fault = "merkle"
    THEN [s |-> changes.s, err |-> "failed to commit the merkle view", keys |-> 0]
    ELSE [s |-> [changes.s EXCEPT !.db = ApplyBatch(@, changes.ops)],
          err |-> OK, keys |-> Len(changes.ops)]

\* state.writeMerkleState: x == [s, err, keys], the store, the error and the
\* number of trie keys written.
writeMerkleState(s, currentData, pendingData, fault) ==
    CommitToDB(getMerkleChanges(s, currentData, pendingData), fault)

(***************************************************************************)
(* write: the other sections.  Each takes and returns x == [s, err, keys]: *)
(* the sections are the arguments of one utils.Err call, so a section runs *)
(* whatever the ones before it returned, and x.err is the first error.     *)
(***************************************************************************)

\* state.writeBlocks
writeBlocks(x) ==
    LET added == DOMAIN x.s.addedBlocks
        heights == {Height(b) : b \in added}
    IN  [x EXCEPT
            !.s.addedBlockIDs = [h \in DOMAIN @ \ heights |-> @[h]],
            !.s.blockIDCache = [h \in DOMAIN @ \cup heights |->
                                  IF h \in heights THEN BlockAt(h) ELSE @[h]],
            !.s.db.blockIDs = [h \in DOMAIN @ \cup heights |->
                                  IF h \in heights THEN BlockAt(h) ELSE @[h]],
            !.s.addedBlocks = EmptyMap,
            !.s.blockCache = [b \in DOMAIN @ \ added |-> @[b]],
            !.s.db.blocks = @ \cup added]

\* state.writeTxs: the transactions are put in the trie.
writeTxs(x) ==
    [x EXCEPT
        !.s.addedTxs = EmptyMap,
        !.s.txCache = [t \in DOMAIN @ \ DOMAIN x.s.addedTxs |-> @[t]],
        !.s.db.txs = @ \cup DOMAIN x.s.addedTxs,
        !.keys = @ + Cardinality(DOMAIN x.s.addedTxs)]

\* What Marshal returns for the nil pointer that the cache yields for a
\* subnet it does not hold.
ErrMarshalNil == "can't marshal nil pointer or interface"

\* state.writeLocalUptimes: the uptimes of the modified subnets are read from
\* the cache and put.  A node with a modified subnet that the cache does not
\* hold ends the loop with the error of Marshal and stays in
\* modifiedLocalUptimes; the nodes without one are written.
writeLocalUptimes(x) ==
    LET keys == {k \in NodeIDs \X SubnetIDs :
                    /\ Has(x.s.modifiedLocalUptimes, k[1])
                    /\ k[2] \in x.s.modifiedLocalUptimes[k[1]]}
        missing == {k \in keys :
                       ~(/\ Has(x.s.localUptimesCache, k[1])
                         /\ Has(x.s.localUptimesCache[k[1]], k[2]))}
        failing == {k[1] : k \in missing}
        written == {k \in keys : k[1] \notin failing}
    IN  [x EXCEPT
            !.err = IF @ = OK /\ missing # {} THEN ErrMarshalNil ELSE @,
            !.s.modifiedLocalUptimes = [n \in failing |-> @[n]],
            !.s.db.uptimes = [k \in DOMAIN @ \cup written |->
                                IF k \in written
                                THEN x.s.localUptimesCache[k[1]][k[2]] ELSE @[k]]]

\* writeWeightDiffs, had it written the diffs of amount 0 too.
writeWeightDiffsAll(x, height, weightDiffs) ==
    LET keys == DOMAIN weightDiffs
        dbKeys == {<<k[1], height, k[2]>> : k \in keys}
    IN  [x EXCEPT !.s.db.weightDiffs =
            [k \in DOMAIN @ \cup dbKeys |->
                IF k \in dbKeys THEN weightDiffs[<<k[1], k[3]>>] ELSE @[k]]]

\* state.writeWeightDiffs: a diff of amount 0 is not written.
writeWeightDiffs(x, height, weightDiffs) ==
    LET keys == {k \in DOMAIN weightDiffs : weightDiffs[k].Amount # 0}
        dbKeys == {<<k[1], height, k[2]>> : k \in keys}
    IN  [x EXCEPT !.s.db.weightDiffs =
            [k \in DOMAIN @ \cup dbKeys |->
                IF k \in dbKeys THEN weightDiffs[<<k[1], k[3]>>] ELSE @[k]]]

\* state.writeBlsKeyDiffs
writeBlsKeyDiffs(x, height, blsKeyDiffs) ==
    LET dbKeys == {<<height, n>> : n \in DOMAIN blsKeyDiffs}
    IN  [x EXCEPT !.s.db.pkDiffs =
            [k \in DOMAIN @ \cup dbKeys |->
                IF k \in dbKeys THEN blsKeyDiffs[k[2]] ELSE @[k]]]

\* The elements of a sequence.
Range(seq) == {seq[i] : i \in DOMAIN seq}

\* state.writeRewardUTXOs
writeRewardUTXOs(x) ==
    LET added == x.s.addedRewardUTXOs
    IN  [x EXCEPT
            !.s.addedRewardUTXOs = EmptyMap,
            !.s.rewardUTXOsCache = [t \in DOMAIN @ \cup DOMAIN added |->
                                      IF Has(added, t) THEN added[t] ELSE @[t]],
            !.s.db.rewardUTXOs =
                [t \in DOMAIN @ \cup DOMAIN added |->
                    (IF Has(@, t) THEN @[t] ELSE {})
                    \cup (IF Has(added, t) THEN Range(added[t]) ELSE {})]]

\* Manager.TotalWeight: fails when the sum does not fit a uint64.
TotalWeightFails(m, subnetID) ==
    LET keys == SetToSeq({k \in DOMAIN m : k[1] = subnetID})
        Sum[i \in 0..Len(keys)] ==
            IF i = 0 THEN 0 ELSE Sum[i - 1] + m[keys[i]].Weight
    IN  Sum[Len(keys)] > MaxUint64

\* updateValidatorSet, lines 2187-2202: one weight diff applied to the manager.
UpdateValidator(m, weightKey, weightDiff, validatorDiff) ==
    IF weightDiff.Decrease
    THEN RemoveWeight(m, weightKey[1], weightKey[2], weightDiff.Amount)
    ELSE IF validatorDiff.validatorStatus = "added"
    THEN AddStaker(m, weightKey[1], weightKey[2],
                   Val(validatorDiff.validator).PublicKey,
                   Val(validatorDiff.validator).TxID, weightDiff.Amount)
    ELSE AddWeight(m, weightKey[1], weightKey[2], weightDiff.Amount)

\* updateValidatorSet, lines 2174-2206: the weight diffs in the order the map
\* yields them, stopping at the first error; acc == [m, err].
RECURSIVE UpdateValidators(_, _, _, _)
UpdateValidators(acc, keys, valSetDiff, weightDiffs) ==
    IF keys = <<>> \/ acc.err THEN acc
    ELSE UpdateValidators(
            IF weightDiffs[Head(keys)].Amount = 0 THEN acc
            ELSE UpdateValidator(acc.m, Head(keys), weightDiffs[Head(keys)],
                                 valSetDiff[Head(keys)]),
            Tail(keys), valSetDiff, weightDiffs)

\* updateValidatorSet, lines 2203-2214: the error it returns.
UpdateError(r) ==
    IF r.err THEN "failed to update validator weight"
    ELSE IF TotalWeightFails(r.m, PrimaryNetworkID)
    THEN "failed to get total weight" ELSE OK

\* The manager and the error of r == [m, err] in x.
Updated(x, r) ==
    [x EXCEPT !.s.validators = r.m,
              !.err = IF @ # OK THEN @ ELSE UpdateError(r)]

\* state.updateValidatorSet
updateValidatorSet(x, updateValidators, valSetDiff, weightDiffs, vOrder) ==
    IF ~updateValidators THEN x
    ELSE Updated(x, UpdateValidators([m |-> x.s.validators, err |-> FALSE],
                                     vOrder, valSetDiff, weightDiffs))

\* write, lines 1380-1389: the sections after the staker diffs; pc and pp are
\* what processCurrentStakers and processPendingStakers returned.
WriteSections(pc, pp, updateValidators, height, vOrder, fault) ==
    updateValidatorSet(
     writeRewardUTXOs(
      writeBlsKeyDiffs(
       writeWeightDiffs(
        writeLocalUptimes(
         writeTxs(
          writeBlocks(
           writeMerkleState(pp.s, pc.stakers, pp.stakers, fault)))),
        height, pc.weights),
       height, pc.bls)),
     updateValidators, pc.valset, pc.weights, vOrder)

\* write, lines 1375-1389: an error of the pending diffs returns at once.
WritePending(pc, pp, updateValidators, height, vOrder, fault) ==
    IF pp.err # OK THEN [s |-> pp.s, err |-> pp.err, keys |-> 0]
    ELSE WriteSections(pc, pp, updateValidators, height, vOrder, fault)

\* write, lines 1371-1389: an error of the current diffs returns at once.
WriteCurrent(pc, updateValidators, height, pOrder, vOrder, fault) ==
    IF pc.err # OK THEN [s |-> pc.s, err |-> pc.err, keys |-> 0]
    ELSE WritePending(pc, processPendingStakers(pc.s, pOrder),
                      updateValidators, height, vOrder, fault)

\* state.write: [s, err, keys].  order, pOrder and vOrder are the orders in
\* which the current diffs, the pending diffs and the weight diffs are
\* visited.
write(s, updateValidators, height, order, pOrder, vOrder, fault) ==
    WriteCurrent(processCurrentStakers(s, order),
                 updateValidators, height, pOrder, vOrder, fault)

\* state.Abort: the versiondb drops its uncommitted writes.
Abort(s) == [s EXCEPT !.db = s.disk]

\* versiondb.CommitBatch: the batch that holds the uncommitted writes.
BaseDBCommitBatch(w) ==
    [s |-> w.s, err |-> w.err, keys |-> w.keys, batch |-> w.s.db]

\* CommitBatch, had it written its batch to the database itself.
CommitBatchWritten(s, order, pOrder, vOrder, fault) ==
    LET b == BaseDBCommitBatch(
                write(s, TRUE, s.lastAcceptedHeight, order, pOrder, vOrder, fault))
    IN  IF b.err # OK THEN b ELSE [b EXCEPT !.s.disk = b.batch]

\* state.CommitBatch: [s, err, keys, batch]
CommitBatch(s, order, pOrder, vOrder, fault) ==
    BaseDBCommitBatch(
        write(s, TRUE, s.lastAcceptedHeight, order, pOrder, vOrder, fault))

\* Commit, lines 1465-1470: the batch is written to the database only if
\* CommitBatch returned no error; the deferred Abort runs last in both cases.
BatchWrite(b) ==
    IF b.err # OK
    THEN [s |-> Abort(b.s), err |-> b.err, keys |-> b.keys,
          steps |-> <<"write", "Abort">>]
    ELSE [s |-> Abort([b.s EXCEPT !.disk = b.batch]), err |-> OK,
          keys |-> b.keys, steps |-> <<"write", "flush", "Abort">>]

\* state.Commit: [s, err, keys, steps]
Commit(s, order, pOrder, vOrder, fault) ==
    BatchWrite(CommitBatch(s, order, pOrder, vOrder, fault))

(***************************************************************************)
(* sync: genesis and load                                                  *)
(***************************************************************************)

\* genesis.InitialSupply of the model's genesis.
InitialSupply == 1

\* ctx.NetworkID, and the network IDs a transaction can carry.
NetworkID == "local"

NetworkIDs == {NetworkID, "other"}

ErrWrongNetworkID == "avax.ErrWrongNetworkID"

\* genesis.Genesis with the given primary-network validators and chains;
\* NetworkID gives the network ID that each of its transactions carries.
GenesisWith(vdrs, chains, networkIDs) ==
    [Timestamp |-> 0, InitialSupply |-> InitialSupply, UTXOs |-> <<>>,
     Validators |-> SetToSeq(vdrs), Chains |-> chains, NetworkID |-> networkIDs]

\* The genesis with the given validators, no chain, and every transaction
\* of the context's network.
Genesis(vdrs) ==
    GenesisWith(vdrs, <<>>, [txID \in {st.TxID : st \in vdrs} |-> NetworkID])

\* syncGenesis, lines 1140-1143
RECURSIVE GenesisUTXOs(_, _)
GenesisUTXOs(s, utxos) ==
    IF utxos = <<>> THEN s ELSE GenesisUTXOs(AddUTXO(s, Head(utxos)), Tail(utxos))

\* syncGenesis, lines 1146-1177: [s, err]
RECURSIVE GenesisValidators(_, _)
GenesisValidators(acc, vdrs) ==
    IF vdrs = <<>> \/ acc.err # OK THEN acc
    ELSE LET staker == Head(vdrs)
             supply == GetCurrentSupply(acc.s, PrimaryNetworkID)
             newCurrentSupply == Add64(Val(supply.val), staker.PotentialReward)
         IN  IF supply.err # OK THEN [s |-> supply.s, err |-> supply.err]
             ELSE IF newCurrentSupply.err THEN [s |-> supply.s, err |-> "overflow"]
             ELSE GenesisValidators(
                    [s |-> SetCurrentSupply(
                              AddTx(PutCurrentValidator(supply.s, staker),
                                    staker.TxID),
                              PrimaryNetworkID, newCurrentSupply.val),
                     err |-> OK],
                    Tail(vdrs))

\* syncGenesis, lines 1179-1193, had it not compared the network IDs.
RECURSIVE GenesisChainsUnchecked(_, _, _)
GenesisChainsUnchecked(acc, chains, networkIDs) ==
    IF chains = <<>> \/ acc.err # OK THEN acc
    ELSE GenesisChainsUnchecked(
            [acc EXCEPT !.s = AddTx(AddChain(@, PrimaryNetworkID, Head(chains)),
                                    Head(chains))],
            Tail(chains), networkIDs)

\* syncGenesis, lines 1179-1193: [s, err]; a chain of another network ends
\* the loop with ErrWrongNetworkID.
RECURSIVE GenesisChains(_, _, _)
GenesisChains(acc, chains, networkIDs) ==
    IF chains = <<>> \/ acc.err # OK THEN acc
    ELSE GenesisChains(
            IF networkIDs[Head(chains)] # NetworkID
            THEN [acc EXCEPT !.err = ErrWrongNetworkID]
            ELSE [acc EXCEPT !.s = AddTx(AddChain(@, PrimaryNetworkID, Head(chains)),
                                         Head(chains))],
            Tail(chains), networkIDs)

\* The write of syncGenesis, had it updated the validator manager.
GenesisWriteUpdating(c) ==
    write(c, TRUE, 0,
          SetToSeq(DiffKeys(c.currentStakers)),
          SetToSeq(DiffKeys(c.pendingStakers)),
          SetToSeq(DiffKeys(c.currentStakers)), "none")

\* syncGenesis, line 1198: write(false, 0)
GenesisWrite(c) ==
    write(c, FALSE, 0,
          SetToSeq(DiffKeys(c.currentStakers)),
          SetToSeq(DiffKeys(c.pendingStakers)),
          SetToSeq(DiffKeys(c.currentStakers)), "none")

\* syncGenesis, lines 1179-1198: c is what the loop over the chains left.
GenesisChained(c) ==
    IF c.err # OK THEN [s |-> c.s, err |-> c.err, keys |-> 0]
    ELSE GenesisWrite(c.s)

\* syncGenesis, lines 1179-1198
GenesisRest(v, genesis) ==
    IF v.err # OK THEN [s |-> v.s, err |-> v.err, keys |-> 0]
    ELSE GenesisChained(GenesisChains(v, genesis.Chains, genesis.NetworkID))

\* state.syncGenesis: [s, err, keys]
syncGenesis(s, genesis) ==
    GenesisRest(
        GenesisValidators(
            [s |-> GenesisUTXOs(
                     AddStatelessBlock(
                        SetCurrentSupply(
                            SetTimestamp(SetLastAccepted(s, BlockAt(0)),
                                         genesis.Timestamp),
                            PrimaryNetworkID, genesis.InitialSupply),
                        BlockAt(0)),
                     genesis.UTXOs),
             err |-> OK],
            genesis.Validators),
        genesis)

\* state.doneInit
doneInit(s) == [s EXCEPT !.db.initialized = TRUE]

\* init, lines 1449-1453
InitCommit(g) ==
    IF g.err # OK THEN g
    ELSE Commit(doneInit(g.s), <<>>, <<>>, <<>>, "none")

\* state.init: [s, err, ...]
init(s, genesis) == InitCommit(syncGenesis(s, genesis))

\* state.loadMerkleMetadata: [s, err]
loadMerkleMetadata(s) ==
    IF IsNil(s.db.chainTime) \/ IsNil(s.db.lastAccepted)
    THEN [s |-> s, err |-> ErrNotFound]
    ELSE [s |-> [s EXCEPT
                  !.latestComittedChainTime = Val(s.db.chainTime),
                  !.chainTime = Val(s.db.chainTime),
                  !.latestCommittedLastAcceptedBlkID = Val(s.db.lastAccepted),
                  !.lastAcceptedBlkID = Val(s.db.lastAccepted)],
          err |-> OK]

\* loadCurrentStakers, lines 1277 and 1284: every staker read enters the tree.
RECURSIVE InsertAll(_, _)
InsertAll(tree, stakers) ==
    IF stakers = <<>> THEN tree
    ELSE InsertAll(ReplaceOrInsert(tree, Head(stakers)), Tail(stakers))

\* loadCurrentStakers and loadPendingStakers: the stakers of a section of the
\* trie as baseStakers without diffs.
LoadStakers(section) ==
    LET stakers == {[StakerByTxID(txID) EXCEPT
                        !.PotentialReward = section[txID].PotentialReward] :
                     txID \in DOMAIN section}
        subnets == {st.SubnetID : st \in stakers}
        Nodes(subnetID) == {st.NodeID : st \in {x \in stakers : x.SubnetID = subnetID}}
        Entry(subnetID, nodeID) ==
            LET own == {st \in stakers :
                            st.SubnetID = subnetID /\ st.NodeID = nodeID}
                vdr == {st \in own : st.IsValidator}
            IN  [validator |-> IF vdr = {} THEN Nil
                               ELSE Some(CHOOSE st \in vdr : TRUE),
                 delegators |-> own \ vdr]
    IN  [validators |->
            [subnetID \in subnets |->
                [nodeID \in Nodes(subnetID) |-> Entry(subnetID, nodeID)]],
         stakers |-> InsertAll({}, SetToSeq(stakers)),
         validatorDiffs |-> EmptyMap]

\* state.loadCurrentStakers
loadCurrentStakers(s) ==
    [s EXCEPT !.currentStakers = LoadStakers(s.db.currentStakers)]

\* state.loadPendingStakers
loadPendingStakers(s) ==
    [s EXCEPT !.pendingStakers = LoadStakers(s.db.pendingStakers)]

\* initValidatorSets, lines 1349-1356: the delegators of a validator.
RECURSIVE InitDelegators(_, _, _)
InitDelegators(acc, weightKey, delegators) ==
    IF delegators = <<>> \/ acc.err THEN acc
    ELSE InitDelegators(
            AddWeight(acc.m, weightKey[1], weightKey[2], Head(delegators).Weight),
            weightKey, Tail(delegators))

\* initValidatorSets, lines 1337-1359: a subnet whose set is not empty is an
\* error; every validator is added with its own weight and then its
\* delegators' weights.
RECURSIVE InitValidators(_, _, _)
InitValidators(acc, keys, vs) ==
    IF keys = <<>> \/ acc.err THEN acc
    ELSE LET weightKey == Head(keys)
             entry == vs[weightKey[1]][weightKey[2]]
             validatorStaker == Val(entry.validator)
             added == AddStaker(acc.m, weightKey[1], weightKey[2],
                                validatorStaker.PublicKey, validatorStaker.TxID,
                                validatorStaker.Weight)
         IN  InitValidators(
                InitDelegators(added, weightKey, SetToSeq(entry.delegators)),
                Tail(keys), vs)

\* An initValidatorSets that does not look whether the sets are empty.
initValidatorSetsUnchecked(s) ==
    LET vs == s.currentStakers.validators
        keys == {k \in StakerKeys : Has(vs, k[1]) /\ Has(vs[k[1]], k[2])}
        r == InitValidators([m |-> s.validators, err |-> FALSE], SetToSeq(keys), vs)
    IN  IF r.err \/ TotalWeightFails(r.m, PrimaryNetworkID)
        THEN [s |-> [s EXCEPT !.validators = r.m], err |-> "initValidatorSets"]
        ELSE [s |-> [s EXCEPT !.validators = r.m], err |-> OK]

\* state.initValidatorSets: [s, err]
initValidatorSets(s) ==
    LET vs == s.currentStakers.validators
        keys == {k \in StakerKeys : Has(vs, k[1]) /\ Has(vs[k[1]], k[2])}
        r == InitValidators([m |-> s.validators, err |-> FALSE], SetToSeq(keys), vs)
    IN  IF \E subnetID \in DOMAIN vs : Count(s.validators, subnetID) # 0
        THEN [s |-> s, err |-> "errValidatorSetAlreadyPopulated"]
        ELSE IF r.err \/ TotalWeightFails(r.m, PrimaryNetworkID)
        THEN [s |-> [s EXCEPT !.validators = r.m], err |-> "initValidatorSets"]
        ELSE [s |-> [s EXCEPT !.validators = r.m], err |-> OK]

\* load, lines 1203-1210: the four loads are the arguments of one utils.Err
\* call; a is what loadMerkleMetadata returned.
LoadRest(a, b) == [s |-> b.s, err |-> IF a.err # OK THEN a.err ELSE b.err]

LoadStakersOf(a) ==
    LoadRest(a, initValidatorSets(loadPendingStakers(loadCurrentStakers(a.s))))

\* state.load: [s, err]
load(s) == LoadStakersOf(loadMerkleMetadata(s))

\* sync, lines 1418-1427
LoadAfterInit(i) == IF i.err # OK THEN [s |-> i.s, err |-> i.err] ELSE load(i.s)

\* sync, had it taken the genesis path whatever the 'initialized' marker.
syncAlwaysInit(s, genesis) == LoadAfterInit(init(s, genesis))

\* state.sync: [s, err]
sync(s, genesis) ==
    IF ~s.db.initialized THEN LoadAfterInit(init(s, genesis)) ELSE load(s)

(***************************************************************************)
(* validators.set: the validator set of a past height (set.go)             *)
(***************************************************************************)

\* cfg.TrackedSubnets: the subnets, other than the primary network, whose
\* validator sets are cached.
TrackedSubnets == {}

\* set.GetCurrentHeight: [s, val, err]
GetCurrentHeight(s) == GetStatelessBlock(s, s.lastAcceptedBlkID)

\* GetValidatorSet, lines 172-198: the set of a subnet as the manager holds
\* it, each node with its weight on the subnet and its key on the primary
\* network; [val, err].
CurrentValidatorSet(m, subnetID) ==
    LET nodes == {n \in NodeIDs : Has(m, VKey(subnetID, n))}
    IN  IF Count(m, PrimaryNetworkID) = 0
           \/ \E n \in nodes : ~Has(m, VKey(PrimaryNetworkID, n))
        THEN [val |-> EmptyMap, err |-> "ErrMissingValidatorSet"]
        ELSE [val |-> [n \in nodes |->
                        [Weight |-> m[VKey(subnetID, n)].Weight,
                         PublicKey |-> m[VKey(PrimaryNetworkID, n)].PublicKey]],
              err |-> OK]

\* state.GetValidatorWeightDiffs: the weight diffs written for a subnet at a
\* height, by node.
GetValidatorWeightDiffs(s, height, subnetID) ==
    [n \in {n \in NodeIDs : Has(s.db.weightDiffs, <<subnetID, height, n>>)} |->
        s.db.weightDiffs[<<subnetID, height, n>>]]

\* state.GetValidatorPublicKeyDiffs: the key diffs written at a height, by node.
GetValidatorPublicKeyDiffs(s, height) ==
    [n \in {n \in NodeIDs : Has(s.db.pkDiffs, <<height, n>>)} |->
        s.db.pkDiffs[<<height, n>>]]

\* GetValidatorSet, lines 207-238: one weight diff undone in vdrSet; [val, err].
UndoWeightDiff(vdrSet, nodeID, weightDiff) ==
    LET vdr == IF Has(vdrSet, nodeID) THEN vdrSet[nodeID]
               ELSE [Weight |-> 0, PublicKey |-> NoKey]
        w == IF weightDiff.Decrease THEN Add64(vdr.Weight, weightDiff.Amount)
             ELSE Sub(vdr.Weight, weightDiff.Amount)
    IN  IF w.err THEN [val |-> vdrSet, err |-> "arithmetic"]
        ELSE IF w.val = 0 THEN [val |-> MapDelete(vdrSet, nodeID), err |-> OK]
        ELSE [val |-> MapPut(vdrSet, nodeID, [vdr EXCEPT !.Weight = w.val]),
              err |-> OK]

\* GetValidatorSet, lines 206-239: the weight diffs of one height.
RECURSIVE UndoWeightDiffs(_, _, _)
UndoWeightDiffs(acc, nodes, weightDiffs) ==
    IF nodes = <<>> \/ acc.err # OK THEN acc
    ELSE UndoWeightDiffs(
            UndoWeightDiff(acc.val, Head(nodes), weightDiffs[Head(nodes)]),
            Tail(nodes), weightDiffs)

\* GetValidatorSet, lines 246-255: the key diffs of one height, for the nodes
\* that are in vdrSet.
UndoPublicKeyDiffs(acc, pkDiffs) ==
    IF acc.err # OK THEN acc
    ELSE [acc EXCEPT !.val =
            [n \in DOMAIN @ |->
                IF Has(pkDiffs, n) THEN [@[n] EXCEPT !.PublicKey = pkDiffs[n]]
                ELSE @[n]]]

\* GetValidatorSet, lines 200-256: the heights from i down to height + 1.
RECURSIVE UndoHeights(_, _, _, _, _)
UndoHeights(acc, s, i, height, subnetID) ==
    IF i <= height \/ acc.err # OK THEN acc
    ELSE UndoHeights(
            UndoPublicKeyDiffs(
                UndoWeightDiffs(acc,
                    SetToSeq(DOMAIN GetValidatorWeightDiffs(s, i, subnetID)),
                    GetValidatorWeightDiffs(s, i, subnetID)),
                GetValidatorPublicKeyDiffs(s, i)),
            s, i - 1, height, subnetID)

\* set.getCache: only the primary network and the tracked subnets keep a cache.
Cacheable(subnetID) ==
    subnetID = PrimaryNetworkID \/ subnetID \in TrackedSubnets

\* GetValidatorSet, lines 258-265: the set is cached and returned.
CacheAndReturn(h, c, r, height, subnetID) ==
    [s |-> h.s,
     caches |-> IF r.err = OK /\ Cacheable(subnetID)
                THEN MapPut(c, <<subnetID, height>>, r.val) ELSE c,
     val |-> IF r.err = OK THEN r.val ELSE EmptyMap,
     err |-> r.err]

\* A BuildValidatorSet that does not compare the height with the last accepted
\* one.
BuildValidatorSetAnyHeight(h, c, height, subnetID) ==
    IF h.err # OK
    THEN [s |-> h.s, caches |-> c, val |-> EmptyMap, err |-> h.err]
    ELSE CacheAndReturn(h, c,
            UndoHeights(CurrentValidatorSet(h.s.validators, subnetID), h.s,
                        Height(Val(h.val)), height, subnetID),
            height, subnetID)

\* GetValidatorSet, lines 161-265: h is what GetCurrentHeight returned.
BuildValidatorSet(h, c, height, subnetID) ==
    IF h.err # OK
    THEN [s |-> h.s, caches |-> c, val |-> EmptyMap, err |-> h.err]
    ELSE IF Height(Val(h.val)) < height
    THEN [s |-> h.s, caches |-> c, val |-> EmptyMap, err |-> ErrNotFound]
    ELSE CacheAndReturn(h, c,
            UndoHeights(CurrentValidatorSet(h.s.validators, subnetID), h.s,
                        Height(Val(h.val)), height, subnetID),
            height, subnetID)

\* set.GetValidatorSet: [s, caches, val, err]
GetValidatorSet(s, c, height, subnetID) ==
    IF Has(c, <<subnetID, height>>)
    THEN [s |-> s, caches |-> c, val |-> c[<<subnetID, height>>], err |-> OK]
    ELSE BuildValidatorSet(GetCurrentHeight(s), c, height, subnetID)

\* The time-to-live of the recently-accepted window and its size, in the
\* clock ticks and entries of the model.
recentlyAcceptedWindowTTL == 1

maxRecentlyAcceptedWindowSize == 2

\* The clock stops at MaxClock.
MaxClock == 3

\* window.removeStaleNodes: the entries older than the TTL leave, oldest
\* first.
RECURSIVE removeStaleNodes(_, _)
removeStaleNodes(w, now) ==
    IF w # <<>> /\ now - Head(w).entryTime > recentlyAcceptedWindowTTL
    THEN removeStaleNodes(Tail(w), now)
    ELSE w

\* Window.Add: the stale entries leave, then the oldest one when the window
\* is full, and the value enters with the time of the clock.
WindowAdd(w, now, value) ==
    LET live == removeStaleNodes(w, now)
        room == IF Len(live) >= maxRecentlyAcceptedWindowSize
                THEN Tail(live) ELSE live
    IN  Append(room, [value |-> value, entryTime |-> now])

\* Window.Oldest: [w, val], the stale entries leave before the oldest is read.
WindowOldest(w, now) ==
    LET live == removeStaleNodes(w, now)
    IN  [w |-> live,
         val |-> IF live = <<>> THEN Nil ELSE Some(Head(live).value)]

\* The number of GetValidatorSet calls that run side by side.
MaxGets == 3

GetIDs == 1..MaxGets

\* A GetValidatorSet call that has not begun: where it stands, what it was
\* asked, the LRU getCache gave it, whether the LRU held the height, and
\* what it returned.
NoGet ==
    [pc |-> "idle", subnetID |-> PrimaryNetworkID, height |-> 0, cache |-> 0,
     hit |-> FALSE, val |-> EmptyMap, err |-> OK]

\* NewSet: no policy flag, the configured tracked subnets, the clock at its
\* start, nothing in the window, no cache of any subnet; lrus are the LRU
\* objects made so far, gets the GetValidatorSet calls under way.
NewSet ==
    [cfg |-> [UseCurrentHeight |-> FALSE, TrackedSubnets |-> TrackedSubnets],
     clk |-> 0, recentlyAccepted |-> <<>>,
     caches |-> EmptyMap, lrus |-> <<>>, gets |-> [c \in GetIDs |-> NoGet]]

\* A getCache that keeps the cache of every subnet.
getCacheOfAnySubnet(v, subnetID) ==
    IF Has(v.caches, subnetID)
    THEN [v |-> v, cache |-> v.caches[subnetID]]
    ELSE [v |-> [v EXCEPT
                  !.lrus = Append(@, [subnetID |-> subnetID,
                                      entries |-> EmptyMap]),
                  !.caches = MapPut(@, subnetID, Len(v.lrus) + 1)],
          cache |-> Len(v.lrus) + 1]

\* set.getCache, under cachesMux from its first line to its return: [v,
\* cache], cache being the LRU of the subnet, made anew when caches has none
\* and kept in caches for the primary network and the tracked subnets.
getCache(v, subnetID) ==
    IF Has(v.caches, subnetID)
    THEN [v |-> v, cache |-> v.caches[subnetID]]
    ELSE LET made == [v EXCEPT
                        !.lrus = Append(@, [subnetID |-> subnetID,
                                            entries |-> EmptyMap])]
         IN  [v |-> IF \/ subnetID = PrimaryNetworkID
                       \/ subnetID \in v.cfg.TrackedSubnets
                    THEN [made EXCEPT
                            !.caches = MapPut(@, subnetID, Len(v.lrus) + 1)]
                    ELSE made,
              cache |-> Len(v.lrus) + 1]

\* GetValidatorSet, lines 156-159: the LRU is asked for the height.
Looked(v, c) ==
    LET get == v.gets[c]
        entries == v.lrus[get.cache].entries
    IN  IF Has(entries, get.height)
        THEN [v EXCEPT !.gets[c].pc = "done", !.gets[c].hit = TRUE,
                       !.gets[c].val = entries[get.height]]
        ELSE [v EXCEPT !.gets[c].pc = "build"]

\* GetValidatorSet from line 161 to its end: g is the set as it was built;
\* it is put into the LRU of the call and returned.
Built(v, c, g) ==
    IF g.err # OK
    THEN [v EXCEPT !.gets[c].pc = "done", !.gets[c].err = g.err]
    ELSE [v EXCEPT !.gets[c].pc = "done", !.gets[c].val = g.val,
                   !.lrus[v.gets[c].cache].entries =
                        MapPut(@, v.gets[c].height, g.val)]

\* set.GetCurrentHeight as GetMinimumHeight returns it: [s, vs, val, err],
\* h is what GetStatelessBlock returned for the last accepted ID.
CurrentHeight(h, v) ==
    [s |-> h.s, vs |-> v,
     val |-> IF h.err = OK THEN Height(Val(h.val)) ELSE 0,
     err |-> h.err]

\* A GetMinimumHeight that returns the height of the oldest block itself.
OldestHeight(b, v) ==
    IF b.err # OK
    THEN [s |-> b.s, vs |-> v, val |-> 0, err |-> b.err]
    ELSE [s |-> b.s, vs |-> v, val |-> Height(Val(b.val)), err |-> OK]

\* GetMinimumHeight, lines 125-136: b is what GetStatelessBlock returned for
\* the oldest block of the window; the subtraction is uint64's.
BeforeOldest(b, v) ==
    IF b.err # OK
    THEN [s |-> b.s, vs |-> v, val |-> 0, err |-> b.err]
    ELSE [s |-> b.s, vs |-> v,
          val |-> (Height(Val(b.val)) + MaxUint64) % (MaxUint64 + 1),
          err |-> OK]

\* A GetMinimumHeight that answers with the height of the oldest block of the
\* window, not the one before it.
GetMinimumHeightAtOldest(s, v) ==
    IF v.cfg.UseCurrentHeight
    THEN CurrentHeight(GetCurrentHeight(s), v)
    ELSE LET o == WindowOldest(v.recentlyAccepted, v.clk)
             pruned == [v EXCEPT !.recentlyAccepted = o.w]
         IN  IF IsNil(o.val)
             THEN CurrentHeight(GetCurrentHeight(s), pruned)
             ELSE OldestHeight(GetStatelessBlock(s, Val(o.val)), pruned)

\* set.GetMinimumHeight: [s, vs, val, err]
GetMinimumHeight(s, v) ==
    IF v.cfg.UseCurrentHeight
    THEN CurrentHeight(GetCurrentHeight(s), v)
    ELSE LET o == WindowOldest(v.recentlyAccepted, v.clk)
             pruned == [v EXCEPT !.recentlyAccepted = o.w]
         IN  IF IsNil(o.val)
             THEN CurrentHeight(GetCurrentHeight(s), pruned)
             ELSE BeforeOldest(GetStatelessBlock(s, Val(o.val)), pruned)

\* set.Track
Track(v, blkID) ==
    [v EXCEPT !.recentlyAccepted = WindowAdd(@, v.clk, blkID)]

\* The order of the node IDs as keys of the flat weight-diff database.
NodeOrder == <<"n1", "n2">>

\* The keys NewIteratorWithStartAndPrefix yields, as <<height, node>>: those
\* of the subnet, from startHeight downwards, and by node within a height.
RECURSIVE DiffIter(_, _, _, _)
DiffIter(s, height, i, subnetID) ==
    IF height < 0 THEN <<>>
    ELSE IF i > Len(NodeOrder) THEN DiffIter(s, height - 1, 1, subnetID)
    ELSE (IF Has(s.db.weightDiffs, <<subnetID, height, NodeOrder[i]>>)
          THEN << <<height, NodeOrder[i]>> >> ELSE <<>>)
         \o DiffIter(s, height, i + 1, subnetID)

\* An applyWeightDiff that keeps a node whose weight reaches zero.
applyWeightDiffKeepsZero(vdrs, nodeID, weightDiff) ==
    LET vdr == IF Has(vdrs, nodeID) THEN vdrs[nodeID]
               ELSE [Weight |-> 0, PublicKey |-> NoKey]
        w == IF weightDiff.Decrease THEN Add64(vdr.Weight, weightDiff.Amount)
             ELSE Sub(vdr.Weight, weightDiff.Amount)
    IN  [val |-> MapPut(vdrs, nodeID, [vdr EXCEPT !.Weight = w.val]),
         err |-> IF w.err THEN "arithmetic" ELSE OK]

\* applyWeightDiff: the map after the call, and the error.
applyWeightDiff(vdrs, nodeID, weightDiff) ==
    LET vdr == IF Has(vdrs, nodeID) THEN vdrs[nodeID]
               ELSE [Weight |-> 0, PublicKey |-> NoKey]
        w == IF weightDiff.Decrease THEN Add64(vdr.Weight, weightDiff.Amount)
             ELSE Sub(vdr.Weight, weightDiff.Amount)
    IN  IF w.err
        THEN [val |-> MapPut(vdrs, nodeID, [vdr EXCEPT !.Weight = w.val]),
              err |-> "arithmetic"]
        ELSE IF w.val = 0 THEN [val |-> MapDelete(vdrs, nodeID), err |-> OK]
        ELSE [val |-> MapPut(vdrs, nodeID, [vdr EXCEPT !.Weight = w.val]),
              err |-> OK]

\* context.Context: a context is cancelled after a number of reads of
\* ctx.Err() that returned nil, or never.
Background == [cancels |-> FALSE, cancelAfter |-> 0]

WithCancel(n) == [cancels |-> TRUE, cancelAfter |-> n]

ErrCanceled == "context canceled"

\* ctx.Err() at a read that n reads came before.
CtxErr(ctx, n) ==
    IF ctx.cancels /\ n >= ctx.cancelAfter THEN ErrCanceled ELSE OK

\* ApplyValidatorWeightDiffs, lines 1022-1046: the keys of the iterator, up to
\* the first one below endHeight or the first error; the context is read
\* before each key, n reads came before.
RECURSIVE ApplyDiffs(_, _, _, _, _, _, _)
ApplyDiffs(ctx, n, acc, s, keys, endHeight, subnetID) ==
    IF keys = <<>> \/ acc.err # OK THEN acc
    ELSE IF CtxErr(ctx, n) # OK THEN [acc EXCEPT !.err = CtxErr(ctx, n)]
    ELSE IF Head(keys)[1] < endHeight THEN acc
    ELSE ApplyDiffs(ctx, n + 1,
            applyWeightDiff(acc.val, Head(keys)[2],
                s.db.weightDiffs[<<subnetID, Head(keys)[1], Head(keys)[2]>>]),
            s, Tail(keys), endHeight, subnetID)

\* An ApplyValidatorWeightDiffs whose iterator starts at the top of the log.
ApplyValidatorWeightDiffsFromTop(ctx, s, vdrs, startHeight, endHeight, subnetID) ==
    ApplyDiffs(ctx, 0, [val |-> vdrs, err |-> OK], s,
               DiffIter(s, MaxHeight, 1, subnetID), endHeight, subnetID)

\* state.ApplyValidatorWeightDiffs: [val, err], val being the caller's map
\* after the call.
ApplyValidatorWeightDiffs(ctx, s, vdrs, startHeight, endHeight, subnetID) ==
    ApplyDiffs(ctx, 0, [val |-> vdrs, err |-> OK], s,
               DiffIter(s, startHeight, 1, subnetID), endHeight, subnetID)

(***************************************************************************)
(* networkClient: requests to peers and their responses                    *)
(* (unnamed/part_001)                                                      *)
(***************************************************************************)

\* The number of calls of Request and RequestAny in one run.
MaxRequests == 3

\* maxActiveRequests, the size of the semaphore, as NewNetworkClient is given
\* it.
maxActiveRequests == 2

CallIDs == 1..MaxRequests

\* Width, in bits, of the request IDs of the model (uint32 in the code).
RequestIDBits == 1

\* The request IDs: the peers answer to any of them.
RequestIDs == 0..(2 ^ RequestIDBits - 1)

ResponseBytes == {"response"}

ErrAcquiringSemaphore == "error acquiring semaphore"

ErrRequestFailed == "request failed"

ErrNoPeers == "no peers found matching version"

ErrSendAppRequest == "SendAppRequest failed"

\* newResponseHandler: nothing on the channel, not failed.
NewResponseHandler == [failed |-> FALSE, closed |-> FALSE, responseChan |-> Nil]

\* A call of Request or RequestAny: where it is (idle, acquire, send, wait,
\* done), its context, its request ID and handler, what it returned, and the
\* events (cancel, response, failed) that reached it, in their order, and
\* the number of times its handler was invoked.
NoCall ==
    [pc |-> "idle", any |-> FALSE, cancelled |-> FALSE, requestID |-> 0,
     acquired |-> FALSE, waited |-> FALSE, handler |-> NewResponseHandler,
     response |-> Nil, err |-> OK, events |-> <<>>, invoked |-> 0]

\* NewNetworkClient; peers are the peers connected.
NewNetworkClient(peers) ==
    [requestID |-> 0, outstandingRequestHandlers |-> EmptyMap,
     activeRequests |-> 0, peers |-> peers,
     calls |-> [c \in CallIDs |-> NoCall]]

\* The call returns.
Returned(n, c, response, err) ==
    [n EXCEPT !.calls[c].pc = "done", !.calls[c].response = response,
              !.calls[c].err = err]

\* activeRequests.Release(1), deferred by Request and RequestAny.
Release(n) == [n EXCEPT !.activeRequests = @ - 1]

\* Request and RequestAny, lines 180-183 and 211-214: Acquire gave a slot, or
\* returned the context's error.
Acquired(n, c, gotSlot) ==
    IF gotSlot
    THEN [n EXCEPT !.activeRequests = @ + 1, !.calls[c].acquired = TRUE,
                   !.calls[c].pc = "send"]
    ELSE Returned(n, c, Nil, ErrAcquiringSemaphore)

\* networkClient.request up to the unlock: the request ID is taken, the
\* request sent, the handler registered.
request(n, c, sendFails) ==
    LET sent == [n EXCEPT !.requestID = (@ + 1) % (2 ^ RequestIDBits)]
    IN  IF sendFails
        THEN Release(Returned(sent, c, Nil, ErrSendAppRequest))
        ELSE [sent EXCEPT
                !.outstandingRequestHandlers = MapPut(@, n.requestID, c),
                !.calls[c].requestID = n.requestID,
                !.calls[c].waited = TRUE,
                !.calls[c].pc = "wait"]

\* RequestAny, lines 186-198: a peer is chosen, if there is one.
RequestAny(n, c, sendFails) ==
    IF n.peers = {}
    THEN Release(Returned(n, c, Nil, ErrNoPeers))
    ELSE request(n, c, sendFails)

\* A request that returns what came from the channel although the handler
\* failed.
ReceivedUnchecked(h) ==
    [response |-> IF IsNil(h.responseChan) THEN Some("") ELSE h.responseChan,
     err |-> OK]

\* networkClient.request, lines 261-270: what the request returns once the
\* handler's channel has yielded.
Received(h) ==
    IF h.failed
    THEN [response |-> Nil, err |-> ErrRequestFailed]
    ELSE [response |-> h.responseChan, err |-> OK]

\* networkClient.request, lines 255-260: the select takes ctx.Done() or the
\* handler's channel.
Selected(n, c, takesDone) ==
    IF takesDone
    THEN Release(Returned(n, c, Nil, ErrCanceled))
    ELSE Release(Returned(n, c, Received(n.calls[c].handler).response,
                          Received(n.calls[c].handler).err))

\* A getRequestHandler that leaves the handler registered.
getRequestHandlerKept(n, requestID) ==
    IF Has(n.outstandingRequestHandlers, requestID)
    THEN [n |-> n, handler |-> Some(n.outstandingRequestHandlers[requestID])]
    ELSE [n |-> n, handler |-> Nil]

\* networkClient.getRequestHandler: [n, handler], the handler being the call
\* it belongs to, or Nil.
getRequestHandler(n, requestID) ==
    IF Has(n.outstandingRequestHandlers, requestID)
    THEN [n |-> [n EXCEPT !.outstandingRequestHandlers = MapDelete(@, requestID)],
          handler |-> Some(n.outstandingRequestHandlers[requestID])]
    ELSE [n |-> n, handler |-> Nil]

\* networkClient.AppResponse: the handler's OnResponse puts the response on
\* its channel.
AppResponse(n, requestID, response) ==
    LET g == getRequestHandler(n, requestID)
    IN  IF IsNil(g.handler) THEN n
        ELSE [g.n EXCEPT
                !.calls[Val(g.handler)].handler.responseChan = Some(response)]

\* networkClient.AppRequestFailed: the handler's OnFailure marks it failed
\* and closes its channel.
AppRequestFailed(n, requestID) ==
    LET g == getRequestHandler(n, requestID)
    IN  IF IsNil(g.handler) THEN n
        ELSE [g.n EXCEPT
                !.calls[Val(g.handler)].handler.failed = TRUE,
                !.calls[Val(g.handler)].handler.closed = TRUE]

\* What ret and hist hold before any call.
NoRet ==
    [call |-> "", arg |-> <<>>, err |-> OK, val |-> Nil, keys |-> 0,
     steps |-> <<>>, base |-> Nil, would |-> Nil,
     pre |-> [clean |-> TRUE, root |-> MerkleRoot(EmptyDB), validators |-> EmptyMap,
              deleted |-> {}, merkleClean |-> TRUE, added |-> {}]]

NoHist == [staged |-> {}, live |-> {}, snaps |-> EmptyMap, seen |-> <<>>, n |-> 0]

\* A store that has just been made by newState over an empty database and
\* that no call has touched.
StoreIdle ==
    /\ FieldsAre(NewState(EmptyDB))
    /\ caches = EmptyMap
    /\ set = NewSet
    /\ net = NewNetworkClient({})
    /\ ret = NoRet
    /\ hist = NoHist

\* The record of "no Add call yet".
NoAdd ==
    [called |-> FALSE, pre |-> [Decrease |-> FALSE, Amount |-> 0],
     negative |-> FALSE, amount |-> 0,
     post |-> [Decrease |-> FALSE, Amount |-> 0], err |-> FALSE]

\* The weight-diff runs when they are not in use.
WDIdle ==
    /\ wdStart = [Decrease |-> FALSE, Amount |-> 0]
    /\ wdOps = <<>>
    /\ wdPerm = <<>>
    /\ wdA = [v |-> wdStart, err |-> FALSE, n |-> 0]
    /\ wdB = [v |-> wdStart, err |-> FALSE, n |-> 0]
    /\ wdLast = NoAdd

(***************************************************************************)
(* SpecStore: staging calls, reads, Commit and Abort on one store          *)
(***************************************************************************)

\* The number of calls of a run.
MaxCalls == 5

\* The stakers and the transactions the calls are drawn from.
StoreStakers == {ValidatorOf(PrimaryNetworkID, "n1"), ValidatorOf("S", "n1")}

StoreTxs == {st.TxID : st \in StoreStakers} \cup {SubnetTx("S")}

\* No staging map holds anything.
StagingEmpty(s) ==
    /\ s.modifiedUTXOs = EmptyMap
    /\ s.addedTxs = EmptyMap
    /\ s.addedBlocks = EmptyMap
    /\ s.addedBlockIDs = EmptyMap
    /\ s.addedChains = EmptyMap
    /\ s.addedPermissionedSubnets = <<>>
    /\ s.addedElasticSubnets = EmptyMap
    /\ s.addedRewardUTXOs = EmptyMap
    /\ s.modifiedSupplies = EmptyMap
    /\ s.subnetOwners = EmptyMap
    /\ s.modifiedLocalUptimes = EmptyMap
    /\ s.modifiedDelegateeReward = EmptyMap
    /\ s.currentStakers.validatorDiffs = EmptyMap
    /\ s.pendingStakers.validatorDiffs = EmptyMap

\* Nothing is staged: no staging map holds anything, and the chain time and
\* the last accepted ID are the ones last written.
NothingStaged(s) ==
    /\ StagingEmpty(s)
    /\ s.chainTime = s.latestComittedChainTime
    /\ s.lastAcceptedBlkID = s.latestCommittedLastAcceptedBlkID

\* Nothing is staged for a merkleized section (the type's list, lines
\* 209-224): what is staged, if anything, is a block, a block ID, a
\* transaction, an uptime or a reward UTXO.
NothingMerkleizedStaged(s) ==
    /\ s.modifiedUTXOs = EmptyMap
    /\ s.addedChains = EmptyMap
    /\ s.addedPermissionedSubnets = <<>>
    /\ s.addedElasticSubnets = EmptyMap
    /\ s.modifiedSupplies = EmptyMap
    /\ s.subnetOwners = EmptyMap
    /\ s.modifiedDelegateeReward = EmptyMap
    /\ s.currentStakers.validatorDiffs = EmptyMap
    /\ s.pendingStakers.validatorDiffs = EmptyMap
    /\ s.chainTime = s.latestComittedChainTime
    /\ s.lastAcceptedBlkID = s.latestCommittedLastAcceptedBlkID

\* The transactions of the validators that currentStakers.validatorDiffs
\* holds as added.
StagedValidators(s) ==
    {Val(s.currentStakers.validatorDiffs[k[1]][k[2]].validator).TxID :
        k \in {d \in DiffKeys(s.currentStakers) :
                  s.currentStakers.validatorDiffs[d[1]][d[2]].validatorStatus
                      = "added"}}

\* The UTXOs that a DeleteUTXO has marked in modifiedUTXOs.
StagedDeletes(s) ==
    {u \in UTXOIDs : Has(s.modifiedUTXOs, u) /\ IsNil(s.modifiedUTXOs[u])}

Pre ==
    [clean |-> NothingStaged(Cur), root |-> MerkleRoot(disk),
     validators |-> validators, deleted |-> StagedDeletes(Cur),
     merkleClean |-> NothingMerkleizedStaged(Cur),
     added |-> StagedValidators(Cur)]

Called(call, arg, err, val) ==
    [call |-> call, arg |-> arg, err |-> err, val |-> val, keys |-> 0,
     steps |-> <<>>, base |-> Nil, would |-> Nil, pre |-> Pre]

StoreInit ==
    /\ WDIdle
    /\ FieldsAre(sync(NewState(EmptyDB), Genesis({})).s)
    /\ caches = EmptyMap
    /\ set = NewSet
    /\ net = NewNetworkClient({})
    /\ ret = NoRet
    /\ hist = NoHist

DoAddUTXO ==
    \E u \in UTXOIDs :
        /\ hist.n < MaxCalls
        /\ Assign(AddUTXO(Cur, u))
        /\ ret' = Called("AddUTXO", <<u>>, OK, Nil)
        /\ hist' = [hist EXCEPT !.staged = @ \cup {u}, !.n = @ + 1]
        /\ UNCHANGED <<wdVars, setVars>>

DoDeleteUTXO ==
    \E u \in UTXOIDs :
        /\ hist.n < MaxCalls
        /\ Assign(DeleteUTXO(Cur, u))
        /\ ret' = Called("DeleteUTXO", <<u>>, OK, Nil)
        /\ hist' = [hist EXCEPT !.staged = @ \ {u}, !.live = @ \ {u}, !.n = @ + 1]
        /\ UNCHANGED <<wdVars, setVars>>

DoGetUTXO ==
    \E u \in UTXOIDs :
        LET r == GetUTXO(Cur, u)
        IN  /\ hist.n < MaxCalls
            /\ Assign(r.s)
            /\ ret' = Called("GetUTXO", <<u>>, r.err, r.val)
            /\ hist' = [hist EXCEPT !.n = @ + 1]
            /\ UNCHANGED <<wdVars, setVars>>

DoAddTx ==
    \E txID \in StoreTxs :
        /\ hist.n < MaxCalls
        /\ Assign(AddTx(Cur, txID))
        /\ ret' = Called("AddTx", txID, OK, Nil)
        /\ hist' = [hist EXCEPT !.n = @ + 1]
        /\ UNCHANGED <<wdVars, setVars>>

DoPutCurrentValidator ==
    \E staker \in StoreStakers :
        /\ hist.n < MaxCalls
        /\ Assign(PutCurrentValidator(Cur, staker))
        /\ ret' = Called("PutCurrentValidator", staker.TxID, OK, Nil)
        /\ hist' = [hist EXCEPT !.n = @ + 1]
        /\ UNCHANGED <<wdVars, setVars>>

DoSetSubnetOwner ==
    /\ hist.n < MaxCalls
    /\ Assign(SetSubnetOwner(Cur, "S", "owner2"))
    /\ ret' = Called("SetSubnetOwner", <<"S">>, OK, Nil)
    /\ hist' = [hist EXCEPT !.n = @ + 1]
    /\ UNCHANGED <<wdVars, setVars>>

DoGetSubnetOwner ==
    LET r == GetSubnetOwner(Cur, "S")
    IN  /\ hist.n < MaxCalls
        /\ Assign(r.s)
        /\ ret' = Called("GetSubnetOwner", <<"S">>, r.err, r.val)
        /\ hist' = [hist EXCEPT !.n = @ + 1]
        /\ UNCHANGED <<wdVars, setVars>>

DoGetDelegateeReward ==
    \E staker \in StoreStakers :
        LET r == GetDelegateeReward(Cur, staker.SubnetID, staker.NodeID)
        IN  /\ hist.n < MaxCalls
            /\ Assign(r.s)
            /\ ret' = Called("GetDelegateeReward",
                             <<staker.SubnetID, staker.NodeID>>, r.err, r.val)
            /\ hist' = [hist EXCEPT !.n = @ + 1]
            /\ UNCHANGED <<wdVars, setVars>>

DoGetUptime ==
    \E staker \in StoreStakers :
        LET r == GetUptime(Cur, staker.NodeID, staker.SubnetID)
        IN  /\ hist.n < MaxCalls
            /\ Assign(r.s)
            /\ ret' = Called("GetUptime",
                             <<staker.NodeID, staker.SubnetID>>, r.err, r.val)
            /\ hist' = [hist EXCEPT !.n = @ + 1]
            /\ UNCHANGED <<wdVars, setVars>>

DoSetTimestamp ==
    \E tm \in Times :
        /\ hist.n < MaxCalls
        /\ Assign(SetTimestamp(Cur, tm))
        /\ ret' = Called("SetTimestamp", <<tm>>, OK, Nil)
        /\ hist' = [hist EXCEPT !.n = @ + 1]
        /\ UNCHANGED <<wdVars, setVars>>

\* What a Commit that returned c leaves.
Committed(c, fault) ==
    /\ Assign(c.s)
    /\ ret' = [Called("Commit", <<fault>>, c.err, Nil) EXCEPT
                  !.keys = c.keys, !.steps = c.steps]
    /\ hist' = [hist EXCEPT
                  !.live = IF c.err = OK THEN @ \cup hist.staged ELSE @,
                  !.staged = {},
                  !.n = @ + 1]

\* Commit, under every storage fault and every order of the staker diffs.
DoCommit ==
    \E fault \in Faults,
       order \in Orders(DiffKeys(currentStakers)),
       pOrder \in Orders(DiffKeys(pendingStakers)),
       vOrder \in Orders(DiffKeys(currentStakers)) :
        /\ hist.n < MaxCalls
        /\ Committed(Commit(Cur, order, pOrder, vOrder, fault), fault)
        /\ UNCHANGED <<wdVars, setVars>>

DoAbort ==
    /\ hist.n < MaxCalls
    /\ Assign(Abort(Cur))
    /\ ret' = Called("Abort", <<>>, OK, Nil)
    /\ hist' = [hist EXCEPT !.n = @ + 1]
    /\ UNCHANGED <<wdVars, setVars>>

\* CommitBatch: what it returns is the batch, not yet written.  base is the
\* database as the call found it, would the database that Commit would have
\* left in its place.
GotBatch(b, c, fault) ==
    /\ Assign(b.s)
    /\ ret' = [Called("CommitBatch", <<fault>>, b.err,
                      IF b.err = OK THEN Some(b.batch) ELSE Nil) EXCEPT
                  !.keys = b.keys, !.base = Some(disk), !.would = Some(c.s.disk)]
    /\ hist' = [hist EXCEPT !.staged = {}, !.n = @ + 1]

DoCommitBatch ==
    \E fault \in Faults,
       order \in Orders(DiffKeys(currentStakers)),
       pOrder \in Orders(DiffKeys(pendingStakers)),
       vOrder \in Orders(DiffKeys(currentStakers)) :
        /\ hist.n < MaxCalls
        /\ GotBatch(CommitBatch(Cur, order, pOrder, vOrder, fault),
                    Commit(Cur, order, pOrder, vOrder, fault), fault)
        /\ UNCHANGED <<wdVars, setVars>>

\* batch.Write on the batch that CommitBatch has just returned.
DoWriteBatch ==
    /\ ret.call = "CommitBatch"
    /\ ret.err = OK
    /\ Assign([Cur EXCEPT !.disk = Val(ret.val)])
    /\ ret' = [ret EXCEPT !.call = "batch.Write"]
    /\ UNCHANGED <<wdVars, setVars, hist>>

\* The batch that CommitBatch has just returned is dropped, then Abort.
DoDropBatch ==
    /\ ret.call = "CommitBatch"
    /\ ret.err = OK
    /\ Assign(Abort(Cur))
    /\ ret' = [ret EXCEPT !.call = "drop, Abort"]
    /\ UNCHANGED <<wdVars, setVars, hist>>

NextBatch ==
    \/ DoAddUTXO
    \/ DoDeleteUTXO
    \/ DoAddTx
    \/ DoPutCurrentValidator
    \/ DoSetTimestamp
    \/ DoCommitBatch
    \/ DoWriteBatch
    \/ DoDropBatch
    \/ DoCommit

SpecBatch == StoreInit /\ [][NextBatch]_vars

NextStore ==
    \/ DoAddUTXO
    \/ DoDeleteUTXO
    \/ DoGetUTXO
    \/ DoAddTx
    \/ DoPutCurrentValidator
    \/ DoSetSubnetOwner
    \/ DoGetSubnetOwner
    \/ DoGetDelegateeReward
    \/ DoGetUptime
    \/ DoSetTimestamp
    \/ DoCommit
    \/ DoAbort

SpecStore == StoreInit /\ [][NextStore]_vars

(***************************************************************************)
(* SpecVal: blocks are accepted, and validator sets of past heights are    *)
(* asked for                                                               *)
(***************************************************************************)

\* The number of staker changes of a block.
MaxBlockOps == 2

\* The number of GetValidatorSet and ApplyValidatorWeightDiffs calls of a run.
MaxQueries == 1

\* The number of times a database is opened in one run of SpecGenesis.
MaxOpens == 2

\* The stakers the blocks add and remove: the validators, and a delegator.
ValStakers == AllValidators \cup {DelegatorOf(PrimaryNetworkID, "n1")}

\* A change of the current stakers: Put or Delete of a validator or delegator.
StakerChanges == {[put |-> b, staker |-> st] : b \in BOOLEAN, st \in ValStakers}

BlockChanges == UNION {[1..n -> StakerChanges] : n \in 1..MaxBlockOps}

\* What block execution checks before it changes the stakers: a validator is
\* added to a subnet when the node validates the primary network and is not
\* on the subnet yet; it is removed after its delegators, from the primary
\* network after the subnets, and never as the last primary validator; a
\* delegator is added to a validator; a block changes a staker once.
Allowed(s, ch, touched) ==
    LET st == ch.staker
        e == Get2(s.currentStakers.validators, st.SubnetID, st.NodeID, NewBaseStaker)
        onPrimary(n) ==
            ~IsNil(GetValidator(s.currentStakers, PrimaryNetworkID, n))
    IN  /\ st.TxID \notin touched
        /\ IF st.IsValidator
           THEN IF ch.put
                THEN /\ IsNil(e.validator)
                     /\ st.SubnetID # PrimaryNetworkID => onPrimary(st.NodeID)
                ELSE /\ e.validator = Some(st)
                     /\ e.delegators = {}
                     /\ st.SubnetID = PrimaryNetworkID =>
                          /\ \A sub \in SubnetIDs \ {PrimaryNetworkID} :
                                IsNil(GetValidator(s.currentStakers, sub, st.NodeID))
                          /\ \E n \in NodeIDs \ {st.NodeID} : onPrimary(n)
           ELSE IF ch.put
                THEN ~IsNil(e.validator) /\ st \notin e.delegators
                ELSE st \in e.delegators

\* One change of a block: the staker call, and AddTx for a new staker.
Change(s, ch) ==
    IF ch.staker.IsValidator
    THEN IF ch.put
         THEN AddTx(PutCurrentValidator(s, ch.staker), ch.staker.TxID)
         ELSE DeleteCurrentValidator(s, ch.staker)
    ELSE IF ch.put
         THEN AddTx(PutCurrentDelegator(s, ch.staker), ch.staker.TxID)
         ELSE DeleteCurrentDelegator(s, ch.staker)

RECURSIVE AllAllowed(_, _, _)
AllAllowed(s, changes, touched) ==
    IF changes = <<>> THEN TRUE
    ELSE /\ Allowed(s, Head(changes), touched)
         /\ AllAllowed(Change(s, Head(changes)), Tail(changes),
                       touched \cup {Head(changes).staker.TxID})

RECURSIVE Changes(_, _)
Changes(s, changes) ==
    IF changes = <<>> THEN s
    ELSE Changes(Change(s, Head(changes)), Tail(changes))

\* The block of a height, staged for acceptance.
StageBlock(s, height) ==
    AddStatelessBlock(SetLastAccepted(SetHeight(s, height), BlockAt(height)),
                      BlockAt(height))

\* The live validator set of every subnet, as the manager holds it.
LiveSets(m) == [sub \in SubnetIDs |-> CurrentValidatorSet(m, sub).val]

\* The genesis validator sets: at least one primary-network validator.
GenesisValidatorSets ==
    SUBSET {ValidatorOf(PrimaryNetworkID, n) : n \in NodeIDs} \ {{}}

ValInit ==
    /\ WDIdle
    /\ \E vdrs \in GenesisValidatorSets :
          FieldsAre(sync(NewState(EmptyDB), Genesis(vdrs)).s)
    /\ caches = EmptyMap
    /\ set = NewSet
    /\ net = NewNetworkClient({})
    /\ ret = NoRet
    /\ hist = [NoHist EXCEPT !.snaps = MapPut(EmptyMap, 0, LiveSets(validators))]

\* c is what Commit returned for the block of the height.
Accepted(c, height) ==
    /\ c.err = OK
    /\ Assign(c.s)
    /\ ret' = [Called("AcceptBlock", <<height>>, c.err, Nil) EXCEPT
                  !.keys = c.keys, !.steps = c.steps]
    /\ hist' = [hist EXCEPT !.snaps = MapPut(@, height, LiveSets(c.s.validators))]

\* A block is accepted: its staker changes, SetHeight, Commit.  The changes
\* are one of the given sequences.
AcceptBlockOf(blocks) ==
    \E changes \in blocks :
        /\ lastAcceptedHeight < MaxHeight
        /\ AllAllowed(Cur, changes, {})
        /\ \E order \in Orders(DiffKeys(Changes(Cur, changes).currentStakers)),
              vOrder \in Orders(DiffKeys(Changes(Cur, changes).currentStakers)) :
              Accepted(Commit(StageBlock(Changes(Cur, changes),
                                         lastAcceptedHeight + 1),
                              order, <<>>, vOrder, "none"),
                       lastAcceptedHeight + 1)
        /\ UNCHANGED <<wdVars, setVars>>

AcceptBlock == AcceptBlockOf(BlockChanges)

\* Blocks that change the delegators of a primary-network validator, two
\* delegators of the same weight: the block that removes one and adds the
\* other changes the node's weight by zero.
DelegatorBlocks ==
    LET changes == {[put |-> b, staker |-> st] :
                        b \in BOOLEAN,
                        st \in {DelegatorOf(PrimaryNetworkID, "n1"),
                                 SecondDelegatorOf(PrimaryNetworkID, "n1"),
                                 DelegatorOf(PrimaryNetworkID, "n2")}}
    IN  UNION {[1..n -> changes] : n \in 1..MaxBlockOps}

\* c is what Commit returned for the block, pc what processCurrentStakers
\* made of its staker diffs: the call returns the weight diffs in memory.
AcceptedWith(c, pc, height) ==
    /\ c.err = OK
    /\ Assign(c.s)
    /\ ret' = [Called("AcceptBlock", <<height>>, c.err, Some(pc.weights)) EXCEPT
                  !.keys = c.keys, !.steps = c.steps]
    /\ hist' = [hist EXCEPT !.snaps = MapPut(@, height, LiveSets(c.s.validators))]

AcceptDelegatorBlock ==
    \E changes \in DelegatorBlocks :
        /\ lastAcceptedHeight < MaxHeight
        /\ AllAllowed(Cur, changes, {})
        /\ \E order \in Orders(DiffKeys(Changes(Cur, changes).currentStakers)),
              vOrder \in Orders(DiffKeys(Changes(Cur, changes).currentStakers)) :
              AcceptedWith(
                  Commit(StageBlock(Changes(Cur, changes), lastAcceptedHeight + 1),
                         order, <<>>, vOrder, "none"),
                  processCurrentStakers(
                      StageBlock(Changes(Cur, changes), lastAcceptedHeight + 1),
                      order),
                  lastAcceptedHeight + 1)
        /\ UNCHANGED <<wdVars, setVars>>

\* g is what GetValidatorSet returned.
GotValidatorSet(g, height, subnetID) ==
    /\ hist.n < MaxQueries
    /\ hist' = [hist EXCEPT !.n = @ + 1]
    /\ Assign(g.s)
    /\ caches' = g.caches
    /\ UNCHANGED <<set, net>>
    /\ ret' = Called("GetValidatorSet", <<height, subnetID>>, g.err, Some(g.val))

DoGetValidatorSet ==
    \E height \in Heights, subnetID \in SubnetIDs :
        /\ GotValidatorSet(GetValidatorSet(Cur, caches, height, subnetID),
                           height, subnetID)
        /\ UNCHANGED wdVars

\* The maps ApplyValidatorWeightDiffs is called with: the live set of the
\* subnet, and an empty map.
ReplayInputs(subnetID) == {LiveSets(validators)[subnetID], EmptyMap}

\* a is what ApplyValidatorWeightDiffs returned.
Replayed(a, vdrs, startHeight, endHeight, subnetID) ==
    /\ hist.n < MaxQueries
    /\ hist' = [hist EXCEPT !.n = @ + 1]
    /\ ret' = Called("ApplyValidatorWeightDiffs",
                     <<vdrs, startHeight, endHeight, subnetID>>, a.err, Some(a.val))
    /\ UNCHANGED <<wdVars, stateVars, setVars>>

\* The replay starts at the last accepted height, as the callers' does.
DoApplyValidatorWeightDiffs ==
    \E subnetID \in SubnetIDs, startHeight \in {lastAcceptedHeight},
       endHeight \in Heights :
        \E vdrs \in ReplayInputs(subnetID) :
            Replayed(ApplyValidatorWeightDiffs(Background, Cur, vdrs,
                                               startHeight, endHeight,
                                               subnetID),
                     vdrs, startHeight, endHeight, subnetID)

NextVal ==
    \/ AcceptBlock
    \/ DoGetValidatorSet
    \/ DoApplyValidatorWeightDiffs

SpecVal == ValInit /\ [][NextVal]_vars

(***************************************************************************)
(* SpecRepeat: a validator set is asked for, and asked for again while     *)
(* blocks are accepted                                                     *)
(***************************************************************************)

\* g is what the first GetValidatorSet(height, subnetID) returned: a set that
\* was returned is remembered in hist.seen.
FirstGot(g, height, subnetID) ==
    /\ Assign(g.s)
    /\ caches' = g.caches
    /\ UNCHANGED <<set, net>>
    /\ ret' = Called("GetValidatorSet", <<height, subnetID>>, g.err, Some(g.val))
    /\ hist' = [hist EXCEPT
                  !.seen = IF g.err = OK THEN <<height, subnetID, g.val>> ELSE @]

FirstGetValidatorSet ==
    \E height \in Heights, subnetID \in SubnetIDs :
        /\ hist.seen = <<>>
        /\ FirstGot(GetValidatorSet(Cur, caches, height, subnetID),
                    height, subnetID)
        /\ UNCHANGED wdVars

\* g is what a later GetValidatorSet of the same height and subnet returned.
GotAgain(g) ==
    /\ Assign(g.s)
    /\ caches' = g.caches
    /\ UNCHANGED <<set, net>>
    /\ ret' = Called("GetValidatorSet again", <<hist.seen[1], hist.seen[2]>>,
                     g.err, Some(g.val))

RepeatGetValidatorSet ==
    /\ hist.seen # <<>>
    /\ hist.n < MaxQueries
    /\ hist' = [hist EXCEPT !.n = @ + 1]
    /\ GotAgain(GetValidatorSet(Cur, caches, hist.seen[1], hist.seen[2]))
    /\ UNCHANGED wdVars

\* The blocks that change one validator.
ValidatorBlocks == {<<ch>> : ch \in {c \in StakerChanges : c.staker.IsValidator}}

AcceptValidatorBlock == AcceptBlockOf(ValidatorBlocks)

(***************************************************************************)
(* SpecSync: a database opened, changed and opened again.  The store is    *)
(* made by New: newState over the database as it is, then sync with the    *)
(* genesis.                                                                *)
(***************************************************************************)

\* The genesis validators: none, one or two primary-network validators.
GenesisChoices == SUBSET {ValidatorOf(PrimaryNetworkID, n) : n \in NodeIDs}

\* What load restores: the chain time, the last accepted ID, the staker
\* sets, and the weight the manager holds for every (subnet, node).
Loaded(s) ==
    [chainTime |-> s.chainTime,
     lastAcceptedBlkID |-> s.lastAcceptedBlkID,
     currentStakers |-> s.currentStakers.validators,
     pendingStakers |-> s.pendingStakers.validators,
     weights |-> [k \in DOMAIN s.validators |-> s.validators[k].Weight]]

\* The store that is closed, when the call before was a Commit that
\* succeeded: what it held just after that Commit.
JustCommitted ==
    IF ret.call = "Commit" /\ ret.err = OK THEN Some(Loaded(Cur)) ELSE Nil

\* New returned r for the genesis validators vdrs.
Opened(r, vdrs) ==
    /\ Assign(r.s)
    /\ ret' = [Called("sync", <<vdrs>>, r.err, JustCommitted) EXCEPT
                  !.base = Some(disk)]
    /\ hist' = [NoHist EXCEPT !.n = hist.n + 1]

\* state.New over the database: every field is made anew, then sync.
DoOpen ==
    \E vdrs \in GenesisChoices :
        /\ hist.n < MaxCalls
        /\ Opened(sync(NewState(disk), Genesis(vdrs)), vdrs)
        /\ UNCHANGED <<wdVars, setVars>>

\* A store is in use once New has returned it without error.
InUse == ret.call # "" /\ disk.initialized

UseAddUTXO == InUse /\ DoAddUTXO

UseAddTx == InUse /\ DoAddTx

UsePutCurrentValidator == InUse /\ DoPutCurrentValidator

UseSetTimestamp == InUse /\ DoSetTimestamp

UseCommit == InUse /\ DoCommit

NextSync ==
    \/ DoOpen
    \/ UseAddUTXO
    \/ UseAddTx
    \/ UsePutCurrentValidator
    \/ UseSetTimestamp
    \/ UseCommit

\* newState has made the store over an empty database; sync has not run.
SyncInit == StoreIdle /\ WDIdle

SpecSync == SyncInit /\ [][NextSync]_vars

(***************************************************************************)
(* SpecGenesis: databases opened with a genesis whose transactions carry   *)
(* any network ID.                                                         *)
(***************************************************************************)

\* The genesis inputs: validators, at most one chain, and for every
\* transaction the network ID it carries.
GenesisInputs ==
    {GenesisWith(vdrs, chains, networkIDs) :
        vdrs \in GenesisChoices,
        chains \in {<<>>, <<ChainTx(PrimaryNetworkID)>>},
        networkIDs \in [{ValidatorOf(PrimaryNetworkID, n).TxID : n \in NodeIDs}
                            \cup {ChainTx(PrimaryNetworkID)} -> NetworkIDs]}

\* The transactions of a genesis.
GenesisTxs(genesis) ==
    {genesis.Validators[i].TxID : i \in DOMAIN genesis.Validators}
        \cup {genesis.Chains[i] : i \in DOMAIN genesis.Chains}

\* New returned r for the genesis.
OpenedWith(r, genesis) ==
    /\ Assign(r.s)
    /\ ret' = [Called("sync", <<genesis>>, r.err, Nil) EXCEPT !.base = Some(disk)]
    /\ hist' = [NoHist EXCEPT !.n = hist.n + 1]

\* state.New over the database, with any genesis.
DoOpenGenesis ==
    \E genesis \in GenesisInputs :
        /\ hist.n < MaxOpens
        /\ OpenedWith(sync(NewState(disk), genesis), genesis)
        /\ UNCHANGED <<wdVars, setVars>>

NextGenesis ==
    \/ DoOpenGenesis
    \/ UseAddUTXO
    \/ UseCommit

SpecGenesis == SyncInit /\ [][NextGenesis]_vars

(***************************************************************************)
(* SpecNet: requests are made, answered, failed and cancelled              *)
(***************************************************************************)

NetInit ==
    /\ WDIdle
    /\ FieldsAre(NewState(EmptyDB))
    /\ caches = EmptyMap
    /\ set = NewSet
    /\ ret = NoRet
    /\ hist = NoHist
    /\ \E peers \in SUBSET {"n1"} : net = NewNetworkClient(peers)

\* What the network client leaves alone.
storeVars == <<wdVars, stateVars, caches, set, ret, hist>>

\* The event reaches the call, if it has not returned.
Reached(n, c, event) ==
    IF n.calls[c].pc = "done" THEN n
    ELSE [n EXCEPT !.calls[c].events = Append(@, event)]

\* The handler of the call has been invoked, and the event reaches the call.
Invoked(n, c, event) ==
    Reached([n EXCEPT !.calls[c].invoked = @ + 1], c, event)

\* Request (any = FALSE) or RequestAny (any = TRUE) is called; the calls are
\* numbered as they begin.
StartRequest ==
    \E c \in CallIDs, any \in BOOLEAN :
        /\ net.calls[c].pc = "idle"
        /\ \A d \in CallIDs : d < c => net.calls[d].pc # "idle"
        /\ net' = [net EXCEPT !.calls[c].pc = "acquire", !.calls[c].any = any]
        /\ UNCHANGED storeVars

\* The context of a call is cancelled, before Acquire or later.
CancelContext ==
    \E c \in CallIDs :
        /\ net.calls[c].pc \notin {"idle", "done"}
        /\ ~net.calls[c].cancelled
        /\ net' = Reached([net EXCEPT !.calls[c].cancelled = TRUE], c, "cancel")
        /\ UNCHANGED storeVars

\* activeRequests.Acquire(ctx, 1) returns: with a slot when one is free, with
\* the context's error when the context is cancelled; with a free slot and a
\* cancelled context it returns either, as the semaphore's version has it.
AcquireSlot ==
    \E c \in CallIDs, gotSlot \in BOOLEAN :
        /\ net.calls[c].pc = "acquire"
        /\ IF gotSlot THEN net.activeRequests < maxActiveRequests
           ELSE net.calls[c].cancelled
        /\ net' = Acquired(net, c, gotSlot)
        /\ UNCHANGED storeVars

\* The call, under the lock, sends its request; SendAppRequest may fail.
SendRequest ==
    \E c \in CallIDs, sendFails \in BOOLEAN :
        /\ net.calls[c].pc = "send"
        /\ net' = IF net.calls[c].any THEN RequestAny(net, c, sendFails)
                  ELSE request(net, c, sendFails)
        /\ UNCHANGED storeVars

\* The select of the call takes a case that is ready; with both ready it
\* takes either.
Select ==
    \E c \in CallIDs, takesDone \in BOOLEAN :
        /\ net.calls[c].pc = "wait"
        /\ IF takesDone THEN net.calls[c].cancelled
           ELSE \/ ~IsNil(net.calls[c].handler.responseChan)
                \/ net.calls[c].handler.closed
        /\ net' = Selected(net, c, takesDone)
        /\ UNCHANGED storeVars

\* The engine delivers a peer's response to a request ID.
DeliverAppResponse ==
    \E requestID \in RequestIDs, response \in ResponseBytes :
        LET g == getRequestHandler(net, requestID)
        IN  /\ net' = IF IsNil(g.handler)
                      THEN AppResponse(net, requestID, response)
                      ELSE Invoked(AppResponse(net, requestID, response),
                                   Val(g.handler), "response")
            /\ UNCHANGED storeVars

\* The engine delivers the failure of a request ID.
DeliverAppRequestFailed ==
    \E requestID \in RequestIDs :
        LET g == getRequestHandler(net, requestID)
        IN  /\ net' = IF IsNil(g.handler)
                      THEN AppRequestFailed(net, requestID)
                      ELSE Invoked(AppRequestFailed(net, requestID),
                                   Val(g.handler), "failed")
            /\ UNCHANGED storeVars

NextNet ==
    \/ StartRequest
    \/ CancelContext
    \/ AcquireSlot
    \/ SendRequest
    \/ Select
    \/ DeliverAppResponse
    \/ DeliverAppRequestFailed

SpecNet == NetInit /\ [][NextNet]_vars

(***************************************************************************)
(* SpecChains: subnets and chains are added, listed and committed          *)
(***************************************************************************)

\* The transactions that create a subnet, and those that create a chain.
SubnetTxs == {SubnetTx(subnetID) : subnetID \in {"S", "T"}}

ChainTxs == {ChainTx(subnetID) : subnetID \in {PrimaryNetworkID, "S"}}

\* The transactions added so far whose Commit is still to come or succeeded.
Added == hist.staged \cup hist.live

DoAddSubnet ==
    \E tx \in SubnetTxs \ Added :
        /\ hist.n < MaxCalls
        /\ Assign(AddSubnet(Cur, tx))
        /\ ret' = Called("AddSubnet", <<tx>>, OK, Nil)
        /\ hist' = [hist EXCEPT !.staged = @ \cup {tx}, !.n = @ + 1]
        /\ UNCHANGED <<wdVars, setVars>>

DoAddChain ==
    \E tx \in ChainTxs \ Added :
        /\ hist.n < MaxCalls
        /\ Assign(AddChain(Cur, tx[2], tx))
        /\ ret' = Called("AddChain", <<tx>>, OK, Nil)
        /\ hist' = [hist EXCEPT !.staged = @ \cup {tx}, !.n = @ + 1]
        /\ UNCHANGED <<wdVars, setVars>>

\* r is what a read returned.
Listed(r, call, arg) ==
    /\ hist.n < MaxCalls
    /\ Assign(r.s)
    /\ ret' = Called(call, arg, r.err, r.val)
    /\ hist' = [hist EXCEPT !.n = @ + 1]
    /\ UNCHANGED <<wdVars, setVars>>

DoGetSubnets == Listed(GetSubnets(Cur), "GetSubnets", <<>>)

DoGetChains ==
    \E tx \in ChainTxs : Listed(GetChains(Cur, tx[2]), "GetChains", <<tx[2]>>)

NextChains ==
    \/ DoAddSubnet
    \/ DoAddChain
    \/ DoGetSubnets
    \/ DoGetChains
    \/ DoCommit

SpecChains == StoreInit /\ [][NextChains]_vars

(***************************************************************************)
(* SpecIter: a store is opened, current and pending stakers are put and    *)
(* deleted, committed, and the store is opened again                       *)
(***************************************************************************)

\* The changes of the current stakers: validators of n1, and two delegators.
IterChanges ==
    {[put |-> b, staker |-> st] :
        b \in BOOLEAN,
        st \in {ValidatorOf(PrimaryNetworkID, "n1"), ValidatorOf("S", "n1"),
                 DelegatorOf(PrimaryNetworkID, "n1"),
                 SecondDelegatorOf(PrimaryNetworkID, "n1")}}

\* A current staker is put, with its transaction, or deleted.
ChangeCurrent ==
    \E ch \in IterChanges :
        /\ InUse
        /\ hist.n < MaxCalls
        /\ Allowed(Cur, ch, {})
        /\ Assign(Change(Cur, ch))
        /\ ret' = Called(IF ch.put THEN "PutCurrent" ELSE "DeleteCurrent",
                         ch.staker.TxID, OK, Nil)
        /\ hist' = [hist EXCEPT !.n = @ + 1]
        /\ UNCHANGED <<wdVars, setVars>>

\* A pending validator is put, with its transaction, or deleted.
ChangePending ==
    \E put \in BOOLEAN,
       staker \in {ValidatorOf(PrimaryNetworkID, "n2"), ValidatorOf("S", "n2")} :
        /\ InUse
        /\ hist.n < MaxCalls
        /\ put = IsNil(GetValidator(pendingStakers, staker.SubnetID, staker.NodeID))
        /\ Assign(IF put THEN AddTx(PutPendingValidator(Cur, staker), staker.TxID)
                  ELSE DeletePendingValidator(Cur, staker))
        /\ ret' = Called(IF put THEN "PutPending" ELSE "DeletePending",
                         staker.TxID, OK, Nil)
        /\ hist' = [hist EXCEPT !.n = @ + 1]
        /\ UNCHANGED <<wdVars, setVars>>

NextIter ==
    \/ DoOpen
    \/ ChangeCurrent
    \/ ChangePending
    \/ UseCommit

SpecIter == SyncInit /\ [][NextIter]_vars

(***************************************************************************)
(* SpecTrack: blocks are accepted and tracked, the clock advances, and the *)
(* minimum height is asked for                                             *)
(***************************************************************************)

\* The blocks: a subnet validator or a delegator of n1 comes or goes.
TrackedBlocks ==
    {<<[put |-> b, staker |-> st]>> :
        b \in BOOLEAN,
        st \in {ValidatorOf("S", "n1"), DelegatorOf(PrimaryNetworkID, "n1")}}

TrackInit ==
    /\ WDIdle
    /\ FieldsAre(sync(NewState(EmptyDB),
                      Genesis({ValidatorOf(PrimaryNetworkID, "n1")})).s)
    /\ caches = EmptyMap
    /\ \E b \in BOOLEAN : set = [NewSet EXCEPT !.cfg.UseCurrentHeight = b]
    /\ net = NewNetworkClient({})
    /\ ret = NoRet
    /\ hist = [NoHist EXCEPT !.snaps = MapPut(EmptyMap, 0, LiveSets(validators))]

AcceptTrackedBlock == AcceptBlockOf(TrackedBlocks)

\* What GetCurrentHeight returns, and GetValidatorSet for every height and
\* subnet.
QueryResults ==
    [height |-> LET h == GetCurrentHeight(Cur)
                IN  [val |-> h.val, err |-> h.err],
     sets |-> [q \in Heights \X SubnetIDs |->
                  LET g == GetValidatorSet(Cur, caches, q[1], q[2])
                  IN  [val |-> g.val, err |-> g.err]]]

\* The acceptor tracks the block it has accepted.
DoTrack ==
    /\ Height(lastAcceptedBlkID) >= 1
    /\ IF set.recentlyAccepted = <<>> THEN TRUE
       ELSE set.recentlyAccepted[Len(set.recentlyAccepted)].value
                # lastAcceptedBlkID
    /\ set' = Track(set, lastAcceptedBlkID)
    /\ ret' = [Called("Track", <<lastAcceptedBlkID>>, OK, Some(QueryResults))
                  EXCEPT !.base = Some(set.recentlyAccepted)]
    /\ UNCHANGED <<wdVars, stateVars, caches, net, hist>>

\* Time passes on the clock of the set.
Tick ==
    /\ set.clk < MaxClock
    /\ set' = [set EXCEPT !.clk = @ + 1]
    /\ ret' = Called("clk.Set", <<set.clk + 1>>, OK, Nil)
    /\ UNCHANGED <<wdVars, stateVars, caches, net, hist>>

\* g is what GetMinimumHeight returned.
GotMinimumHeight(g) ==
    /\ Assign(g.s)
    /\ set' = g.vs
    /\ ret' = Called("GetMinimumHeight", <<>>, g.err, Some(g.val))
    /\ UNCHANGED <<wdVars, caches, net, hist>>

DoGetMinimumHeight == GotMinimumHeight(GetMinimumHeight(Cur, set))

NextTrack ==
    \/ AcceptTrackedBlock
    \/ DoTrack
    \/ Tick
    \/ DoGetMinimumHeight

SpecTrack == TrackInit /\ [][NextTrack]_vars

(***************************************************************************)
(* SpecUptime: the uptimes of a node on two subnets are set, read and      *)
(* committed, on a store opened over a database that holds some of them    *)
(***************************************************************************)

\* The node whose uptimes are tracked, and the uptimes given to SetUptime.
UptimeNode == "n1"

Uptimes == {[Duration |-> d, lastUpdated |-> d] : d \in 1..MaxTime + 1}

\* The uptime a run before has persisted.
OldUptime == [Duration |-> 0, lastUpdated |-> 0]

\* A store after SetUptime of the node on each of the subnets.
RECURSIVE SetUptimes(_, _, _)
SetUptimes(s, subnetIDs, uptime) ==
    IF subnetIDs = <<>> THEN s
    ELSE SetUptimes(SetUptime(s, UptimeNode, Head(subnetIDs), uptime.Duration,
                              uptime.lastUpdated),
                    Tail(subnetIDs), uptime)

\* The database a run leaves that has set the uptimes of the node on the
\* subnets and committed.
UptimesPersisted(subnetIDs) ==
    Commit(SetUptimes(sync(NewState(EmptyDB), Genesis({})).s,
                      SetToSeq(subnetIDs), OldUptime),
           <<>>, <<>>, <<>>, "none").s.disk

\* The store is opened over such a database; hist.snaps holds, by subnet,
\* the uptime that was last set.
UptimeInit ==
    /\ WDIdle
    /\ caches = EmptyMap
    /\ set = NewSet
    /\ net = NewNetworkClient({})
    /\ ret = NoRet
    /\ \E subnetIDs \in SUBSET SubnetIDs :
          /\ FieldsAre(sync(NewState(UptimesPersisted(subnetIDs)),
                            Genesis({})).s)
          /\ hist = [NoHist EXCEPT
                        !.snaps = [subnetID \in subnetIDs |-> OldUptime]]

DoSetUptime ==
    \E subnetID \in SubnetIDs, uptime \in Uptimes :
        /\ hist.n < MaxCalls
        /\ Assign(SetUptime(Cur, UptimeNode, subnetID, uptime.Duration,
                            uptime.lastUpdated))
        /\ ret' = Called("SetUptime", <<UptimeNode, subnetID, uptime>>, OK, Nil)
        /\ hist' = [hist EXCEPT !.n = @ + 1,
                                !.snaps = MapPut(@, subnetID, uptime)]
        /\ UNCHANGED <<wdVars, setVars>>

\* Commit with nothing staged for the stakers and no storage fault.
DoCommitStaged ==
    /\ hist.n < MaxCalls
    /\ Committed(Commit(Cur, <<>>, <<>>, <<>>, "none"), "none")
    /\ UNCHANGED <<wdVars, setVars>>

NextUptime ==
    \/ DoSetUptime
    \/ DoGetUptime
    \/ DoCommitStaged

SpecUptime == UptimeInit /\ [][NextUptime]_vars

(***************************************************************************)
(* SpecRewards: reward UTXOs are added for a transaction, committed and    *)
(* read                                                                    *)
(***************************************************************************)

\* The transactions that are rewarded.
RewardTxs == {st.TxID : st \in StoreStakers}

\* hist.snaps holds, by transaction, the reward UTXOs ever added.
DoAddRewardUTXO ==
    \E txID \in RewardTxs, utxoID \in UTXOIDs :
        /\ hist.n < MaxCalls
        /\ ~(Has(hist.snaps, txID) /\ utxoID \in hist.snaps[txID])
        /\ Assign(AddRewardUTXO(Cur, txID, utxoID))
        /\ ret' = Called("AddRewardUTXO", <<txID, utxoID>>, OK, Nil)
        /\ hist' = [hist EXCEPT
                      !.n = @ + 1,
                      !.snaps = MapPut(@, txID,
                                       (IF Has(@, txID) THEN @[txID] ELSE {})
                                            \cup {utxoID})]
        /\ UNCHANGED <<wdVars, setVars>>

DoGetRewardUTXOs ==
    \E txID \in RewardTxs :
        LET r == GetRewardUTXOs(Cur, txID)
        IN  /\ hist.n < MaxCalls
            /\ Assign(r.s)
            /\ ret' = Called("GetRewardUTXOs", <<txID>>, r.err, r.val)
            /\ hist' = [hist EXCEPT !.n = @ + 1]
            /\ UNCHANGED <<wdVars, setVars>>

NextRewards ==
    \/ DoAddRewardUTXO
    \/ DoGetRewardUTXOs
    \/ DoCommitStaged

SpecRewards == StoreInit /\ [][NextRewards]_vars

(***************************************************************************)
(* SpecCaches: GetValidatorSet calls run side by side, each under the read *)
(* lock of the chain: no block is accepted meanwhile                       *)
(***************************************************************************)

CachesInit ==
    /\ WDIdle
    /\ FieldsAre(sync(NewState(EmptyDB),
                      Genesis({ValidatorOf(PrimaryNetworkID, "n1")})).s)
    /\ caches = EmptyMap
    /\ \E tracked \in SUBSET (SubnetIDs \ {PrimaryNetworkID}) :
          set = [NewSet EXCEPT !.cfg.TrackedSubnets = tracked]
    /\ net = NewNetworkClient({})
    /\ ret = NoRet
    /\ hist = NoHist

\* A GetValidatorSet call begins.
StartGet ==
    \E c \in GetIDs, height \in 0..1, subnetID \in SubnetIDs :
        /\ set.gets[c].pc = "idle"
        /\ set' = [set EXCEPT !.gets[c].pc = "getCache",
                              !.gets[c].subnetID = subnetID,
                              !.gets[c].height = height]
        /\ UNCHANGED <<wdVars, stateVars, caches, net, ret, hist>>

\* The call runs getCache, alone under cachesMux.
DoGetCache ==
    \E c \in GetIDs :
        /\ set.gets[c].pc = "getCache"
        /\ LET g == getCache(set, set.gets[c].subnetID)
           IN  set' = [g.v EXCEPT !.gets[c].cache = g.cache,
                                  !.gets[c].pc = "lookup"]
        /\ UNCHANGED <<wdVars, stateVars, caches, net, ret, hist>>

\* The call asks its LRU for the height.
DoLookup ==
    \E c \in GetIDs :
        /\ set.gets[c].pc = "lookup"
        /\ set' = Looked(set, c)
        /\ UNCHANGED <<wdVars, stateVars, caches, net, ret, hist>>

\* The call builds the set from the state, puts it into its LRU and returns.
DoBuild ==
    \E c \in GetIDs :
        LET g == BuildValidatorSet(GetCurrentHeight(Cur), EmptyMap,
                                   set.gets[c].height, set.gets[c].subnetID)
        IN  /\ set.gets[c].pc = "build"
            /\ set' = Built(set, c, g)
            /\ Assign(g.s)
            /\ UNCHANGED <<wdVars, caches, net, ret, hist>>

NextCaches ==
    \/ StartGet
    \/ DoGetCache
    \/ DoLookup
    \/ DoBuild

SpecCaches == CachesInit /\ [][NextCaches]_vars

(***************************************************************************)
(* SpecReplay: blocks are accepted, and the diffs are replayed backwards   *)
(* under a context, from any height to any height                          *)
(***************************************************************************)

\* The number of reads of ctx.Err() after which a context may be cancelled.
MaxReads == 1

Contexts == {Background} \cup {WithCancel(n) : n \in 0..MaxReads}

\* set.GetValidatorSet under a context: the context goes to GetCurrentHeight
\* (set.go:161), which does not read it, and to nothing else.
GetValidatorSetCtx(ctx, s, c, height, subnetID) ==
    GetValidatorSet(s, c, height, subnetID)

AcceptReplayBlock == AcceptBlockOf(TrackedBlocks)

\* g is what GetValidatorSet returned under the context.
GotValidatorSetCtx(g, ctx, height, subnetID) ==
    /\ hist.n < MaxQueries
    /\ hist' = [hist EXCEPT !.n = @ + 1]
    /\ Assign(g.s)
    /\ caches' = g.caches
    /\ UNCHANGED <<set, net>>
    /\ ret' = [Called("GetValidatorSet", <<ctx, height, subnetID>>, g.err,
                      Some(g.val)) EXCEPT !.base = Some(caches)]

DoGetValidatorSetCtx ==
    \E ctx \in Contexts, height \in Heights, subnetID \in SubnetIDs :
        /\ GotValidatorSetCtx(GetValidatorSetCtx(ctx, Cur, caches, height, subnetID),
                              ctx, height, subnetID)
        /\ UNCHANGED wdVars

\* a is what ApplyValidatorWeightDiffs returned under the context.
ReplayedCtx(a, ctx, vdrs, startHeight, endHeight, subnetID) ==
    /\ hist.n < MaxQueries
    /\ hist' = [hist EXCEPT !.n = @ + 1]
    /\ ret' = Called("ApplyValidatorWeightDiffs",
                     <<ctx, vdrs, startHeight, endHeight, subnetID>>,
                     a.err, Some(a.val))
    /\ UNCHANGED <<wdVars, stateVars, setVars>>

DoReplay ==
    \E ctx \in Contexts, subnetID \in SubnetIDs, startHeight \in Heights,
       endHeight \in Heights :
        \E vdrs \in ReplayInputs(subnetID) :
            ReplayedCtx(ApplyValidatorWeightDiffs(ctx, Cur, vdrs, startHeight,
                                                  endHeight, subnetID),
                        ctx, vdrs, startHeight, endHeight, subnetID)

NextReplay ==
    \/ AcceptReplayBlock
    \/ DoGetValidatorSetCtx
    \/ DoReplay

SpecReplay == ValInit /\ [][NextReplay]_vars

NextZero ==
    \/ AcceptDelegatorBlock
    \/ DoGetValidatorSet

SpecZero == ValInit /\ [][NextZero]_vars

NextRepeat ==
    \/ AcceptValidatorBlock
    \/ FirstGetValidatorSet
    \/ RepeatGetValidatorSet

SpecRepeat == ValInit /\ [][NextRepeat]_vars

(***************************************************************************)
(* SpecWD: two runs of the same Add calls, in two orders                   *)
(***************************************************************************)

\* The amounts the Add calls are drawn from: small ones and the largest.
Amounts == {0, 1, 2, MaxUint64}

AddCall == [negative : BOOLEAN, amount : Amounts]

Perms == {p \in [1..NumOps -> 1..NumOps] : \A i, j \in 1..NumOps : p[i] = p[j] => i = j}

WDInit ==
    /\ wdStart \in [Decrease : BOOLEAN, Amount : {0, 1, MaxUint64}]
    /\ wdOps \in [1..NumOps -> AddCall]
    /\ wdPerm \in Perms
    /\ wdA = [v |-> wdStart, err |-> FALSE, n |-> 0]
    /\ wdB = [v |-> wdStart, err |-> FALSE, n |-> 0]
    /\ wdLast = NoAdd
    /\ StoreIdle

\* One Add call of a run; a run stops at its first error, as its caller does.
ApplyAdd(run, op) ==
    LET r == Add(run.v, op.negative, op.amount)
    IN  [v |-> r.v, err |-> r.err, n |-> run.n + 1]

LastOf(run, op) ==
    LET r == Add(run.v, op.negative, op.amount)
    IN  [called |-> TRUE, pre |-> run.v, negative |-> op.negative, amount |-> op.amount,
         post |-> r.v, err |-> r.err]

AddA ==
    /\ wdA.n < NumOps
    /\ ~wdA.err
    /\ wdA' = ApplyAdd(wdA, wdOps[wdA.n + 1])
    /\ wdLast' = LastOf(wdA, wdOps[wdA.n + 1])
    /\ UNCHANGED <<wdStart, wdOps, wdPerm, wdB, stateVars, setVars, ret, hist>>

AddB ==
    /\ wdA.n = NumOps \/ wdA.err
    /\ wdB.n < NumOps
    /\ ~wdB.err
    /\ wdB' = ApplyAdd(wdB, wdOps[wdPerm[wdB.n + 1]])
    /\ wdLast' = LastOf(wdB, wdOps[wdPerm[wdB.n + 1]])
    /\ UNCHANGED <<wdStart, wdOps, wdPerm, wdA, stateVars, setVars, ret, hist>>

NextWD == AddA \/ AddB

SpecWD == WDInit /\ [][NextWD]_vars

(***************************************************************************)
(* Claims about staging, Commit and Abort (checked under SpecStore)        *)
(***************************************************************************)

\* C2 (as stated): after an Abort the staging is clean - no staging map
\* holds anything, and GetUTXO returns NotFound for every UTXO that is not in
\* the persisted trie.
C2_AsStated ==
    ret.call = "Abort" =>
        /\ StagingEmpty(Cur)
        /\ MerkleRoot(disk) = ret.pre.root
        /\ \A u \in UTXOIDs :
              u \notin disk.utxos => GetUTXO(Cur, u).err = ErrNotFound

\* C3 (as stated): a UTXO that was added and then committed with success,
\* and that no DeleteUTXO has named since it was added, is returned by GetUTXO.
C3_AsStated ==
    \A u \in hist.live :
        /\ GetUTXO(Cur, u).err = OK
        /\ GetUTXO(Cur, u).val = Some(u)

\* C4 (as stated): when the merkle batch of a write fails, no later section
\* updates the validator manager: the manager is as it was before the Commit.
C4_AsStated ==
    (ret.call = "Commit" /\ ret.err = "failed to commit the merkle view") =>
        validators = ret.pre.validators

\* C5 (as stated): every Commit, failed or not, does the write, the flush and
\* the Abort in that order, and leaves every staging map empty.
C5_AsStated ==
    ret.call = "Commit" =>
        /\ ret.steps = <<"write", "flush", "Abort">>
        /\ StagingEmpty(Cur)

\* C6: a Commit that starts with nothing staged - every staging map empty,
\* the chain time and the last accepted ID the ones last written - writes no
\* key of the trie and leaves the merkle root as it was.
C6_EmptyCommit ==
    (ret.call = "Commit" /\ ret.pre.clean) =>
        /\ ret.keys = 0
        /\ MerkleRoot(disk) = ret.pre.root
        /\ MerkleRoot(db) = ret.pre.root

\* C6 witness: a Commit with nothing staged that succeeded, on a store whose
\* trie an earlier Commit has filled.
C6_Witness ==
    /\ ret.call = "Commit"
    /\ ret.pre.clean
    /\ ret.err = OK
    /\ hist.live # {}
    /\ disk.utxos # {}

\* The Get that has just returned, made once more on the store as it now is:
\* [err, readsDB] - what it returns and whether it reads the database.
RepeatedGet ==
    CASE ret.call = "GetUTXO" ->
            [err |-> GetUTXO(Cur, ret.arg[1]).err,
             readsDB |-> GetUTXOReadsDB(Cur, ret.arg[1])]
      [] ret.call = "GetDelegateeReward" ->
            [err |-> GetDelegateeReward(Cur, ret.arg[1], ret.arg[2]).err,
             readsDB |-> GetDelegateeRewardReadsDB(Cur, ret.arg[1], ret.arg[2])]
      [] ret.call = "GetUptime" ->
            [err |-> GetUptime(Cur, ret.arg[1], ret.arg[2]).err,
             readsDB |-> GetUptimeReadsDB(Cur, ret.arg[1], ret.arg[2])]
      [] OTHER -> [err |-> ret.err, readsDB |-> FALSE]

\* C13 (as stated): for every kind of entity, a Get that misses the database
\* records that the key is absent, so the same Get made again at once returns
\* NotFound without reading the database.
C13_AsStated ==
    (ret.call \in {"GetUTXO", "GetDelegateeReward", "GetUptime"}
        /\ ret.err = ErrNotFound) =>
        /\ RepeatedGet.err = ErrNotFound
        /\ ~RepeatedGet.readsDB

\* C14 (as stated): a UTXO that DeleteUTXO has marked is NotFound for GetUTXO
\* until the next write; after the Commit that follows, when it succeeds,
\* the UTXO is gone from the trie and from the address index, and GetUTXO
\* still returns NotFound.
C14_AsStated ==
    /\ \A u \in StagedDeletes(Cur) : GetUTXO(Cur, u).err = ErrNotFound
    /\ (ret.call = "Commit" /\ ret.err = OK) =>
          \A u \in ret.pre.deleted :
              /\ u \notin disk.utxos
              /\ u \notin disk.utxoIndex
              /\ GetUTXO(Cur, u).err = ErrNotFound

\* C16 (as stated): the sections of write that are not merkleized never
\* write to the trie, so a Commit that starts with nothing staged for a
\* merkleized section - only a transaction, say - leaves the merkle root as
\* it was.
C16_AsStated ==
    (ret.call = "Commit" /\ ret.pre.merkleClean) =>
        MerkleRoot(disk) = ret.pre.root

\* A write made now, with no staker Put or Delete before it, persists no
\* staker record, no weight diff and no key diff and leaves the validator
\* manager as it is.
SecondWriteIsNoOp ==
    \A order \in Orders(DiffKeys(currentStakers)),
       pOrder \in Orders(DiffKeys(pendingStakers)) :
        LET w == write(Cur, TRUE, lastAcceptedHeight, order, pOrder, order, "none")
        IN  /\ w.s.db.currentStakers = db.currentStakers
            /\ w.s.db.pendingStakers = db.pendingStakers
            /\ w.s.db.weightDiffs = db.weightDiffs
            /\ w.s.db.pkDiffs = db.pkDiffs
            /\ w.s.validators = validators

\* C17 (as stated): the write of a Commit drains both validatorDiffs maps and
\* turns every staged staker change into persistence output once - a
\* validator staged as added has its record in the trie once the write has
\* met no storage fault - and a second write finds nothing to do for stakers.
C17_AsStated ==
    (ret.call = "Commit" /\ ret.arg = <<"none">>) =>
        /\ currentStakers.validatorDiffs = EmptyMap
        /\ pendingStakers.validatorDiffs = EmptyMap
        /\ \A txID \in ret.pre.added : Has(disk.currentStakers, txID)
        /\ SecondWriteIsNoOp

\* C40 (as stated): a processCurrentStakers or a processPendingStakers that
\* returns an error, in whatever order it visits the diffs, leaves the maps
\* of the staker diffs as they were before the call.
C40_AsStated ==
    /\ \A order \in Orders(DiffKeys(currentStakers)) :
          LET pc == processCurrentStakers(Cur, order)
          IN  pc.err # OK =>
                  /\ pc.s.currentStakers.validatorDiffs = currentStakers.validatorDiffs
                  /\ pc.s.pendingStakers.validatorDiffs = pendingStakers.validatorDiffs
    /\ \A pOrder \in Orders(DiffKeys(pendingStakers)) :
          LET pp == processPendingStakers(Cur, pOrder)
          IN  pp.err # OK =>
                  /\ pp.s.currentStakers.validatorDiffs = currentStakers.validatorDiffs
                  /\ pp.s.pendingStakers.validatorDiffs = pendingStakers.validatorDiffs

(***************************************************************************)
(* Claims about CommitBatch (checked under SpecBatch)                      *)
(***************************************************************************)

\* C15: CommitBatch leaves the database under the versiondb as it found it;
\* writing the batch it returned leaves the database that Commit would have
\* left from the same staged changes; dropping the batch and calling Abort
\* leaves the database as it was before CommitBatch.
C15_BatchIsUnwritten ==
    /\ ret.call = "CommitBatch" => disk = Val(ret.base)
    /\ ret.call = "batch.Write" => disk = Val(ret.would)
    /\ ret.call = "drop, Abort" => disk = Val(ret.base) /\ db = disk

\* C15 witness: a batch of a CommitBatch that changed the trie and the
\* validator set has been written, or dropped.
C15_Witness ==
    /\ ret.call \in {"batch.Write", "drop, Abort"}
    /\ Val(ret.val).utxos # Val(ret.base).utxos
    /\ Val(ret.val).currentStakers # Val(ret.base).currentStakers

(***************************************************************************)
(* Claims about the validator sets of past heights (checked under SpecVal) *)
(***************************************************************************)

\* C1 (as stated): after any sequence of accepted blocks, GetValidatorSet(H,
\* subnet) for a height H up to the last accepted one returns, without error,
\* the set - node to weight and BLS key - that was live right after the block
\* of height H was committed.
C1_AsStated ==
    (ret.call = "GetValidatorSet" /\ ret.arg[1] <= lastAcceptedHeight) =>
        /\ ret.err = OK
        /\ ret.val = Some(hist.snaps[ret.arg[1]][ret.arg[2]])

\* What undoing a diff adds to a weight.
Undone(weightDiff) ==
    IF weightDiff.Decrease THEN weightDiff.Amount ELSE 0 - weightDiff.Amount

\* The weight of a node after the diffs of the heights from h down to
\* endHeight are undone from the weight w, in the integers; -1 once a weight
\* has left 0..MaxUint64.
RECURSIVE ReplayedWeight(_, _, _, _, _)
ReplayedWeight(w, h, endHeight, subnetID, nodeID) ==
    IF w < 0 \/ w > MaxUint64 THEN -1
    ELSE IF h < endHeight \/ h < 0 THEN w
    ELSE ReplayedWeight(
            IF Has(db.weightDiffs, <<subnetID, h, nodeID>>)
            THEN w + Undone(db.weightDiffs[<<subnetID, h, nodeID>>]) ELSE w,
            h - 1, endHeight, subnetID, nodeID)

\* The weight ApplyValidatorWeightDiffs has to leave for a node, given the
\* arguments of the call.
ExpectedWeight(arg, nodeID) ==
    ReplayedWeight(IF Has(arg[1], nodeID) THEN arg[1][nodeID].Weight ELSE 0,
                   arg[2], arg[3], arg[4], nodeID)

\* C10: a backward replay that returns no error returns a map without a node
\* of Weight 0, in GetValidatorSet and in ApplyValidatorWeightDiffs; the
\* latter leaves every node the weight the undone diffs sum to, the node being
\* absent when that is 0, and returns an error exactly when a weight would
\* leave the unsigned range on the way.
C10_NoZeroWeight ==
    /\ (ret.call = "GetValidatorSet" /\ ret.err = OK) =>
          \A n \in DOMAIN Val(ret.val) : Val(ret.val)[n].Weight > 0
    /\ ret.call = "ApplyValidatorWeightDiffs" =>
          /\ ret.err # OK <=> \E n \in NodeIDs : ExpectedWeight(ret.arg, n) = -1
          /\ ret.err = OK =>
                \A n \in NodeIDs :
                    /\ Has(Val(ret.val), n) <=> ExpectedWeight(ret.arg, n) > 0
                    /\ Has(Val(ret.val), n) =>
                          Val(ret.val)[n].Weight = ExpectedWeight(ret.arg, n)

\* C10 witness: a replay without error dropped a node of the map it was given.
C10_Witness ==
    /\ ret.call = "ApplyValidatorWeightDiffs"
    /\ ret.err = OK
    /\ \E n \in DOMAIN ret.arg[1] : ~Has(Val(ret.val), n)

\* C11: GetValidatorSet of a height above the last accepted one returns
\* database.ErrNotFound, and no height cache ever holds a set for a height
\* above the last accepted one.
C11_NotFoundAboveCurrent ==
    /\ (ret.call = "GetValidatorSet" /\ ret.arg[1] > lastAcceptedHeight) =>
          /\ ret.err = ErrNotFound
          /\ ~Has(caches, <<ret.arg[2], ret.arg[1]>>)
    /\ \A k \in DOMAIN caches : k[2] <= lastAcceptedHeight

\* C11 witness: after a block was accepted, GetValidatorSet was asked for the
\* primary network at a height above the last accepted one.
C11_Witness ==
    /\ ret.call = "GetValidatorSet"
    /\ ret.arg[1] > lastAcceptedHeight
    /\ ret.arg[2] = PrimaryNetworkID
    /\ lastAcceptedHeight > 0

\* C12 (as stated): once GetValidatorSet(H, S) has returned a set, a later
\* GetValidatorSet(H, S) returns, without error, an equal map, whatever
\* blocks were accepted in between.
C12_AsStated ==
    ret.call = "GetValidatorSet again" =>
        /\ ret.err = OK
        /\ Val(ret.val) = hist.seen[3]

(***************************************************************************)
(* Claims about blocks of no net weight change (checked under SpecZero)    *)
(***************************************************************************)

\* What the manager holds for a (subnet, node).
ManagerEntry(m, k) ==
    IF Has(m, VKey(k[1], k[2])) THEN Some(m[VKey(k[1], k[2])]) ELSE Nil

\* C18: the weight-diff log holds no entry of Amount 0.  A (subnet, node)
\* whose weight diff of the accepted block is zero in memory has no log
\* entry at the block's height, and the manager holds for it what it held
\* before the block.
C18_NoZeroDiffLogged ==
    /\ \A k \in DOMAIN db.weightDiffs : db.weightDiffs[k].Amount # 0
    /\ (ret.call = "AcceptBlock" /\ ~IsNil(ret.val)) =>
          \A k \in DOMAIN Val(ret.val) :
              Val(ret.val)[k].Amount = 0 =>
                  /\ ~Has(db.weightDiffs, <<k[1], ret.arg[1], k[2]>>)
                  /\ ~Has(disk.weightDiffs, <<k[1], ret.arg[1], k[2]>>)
                  /\ ManagerEntry(validators, k)
                        = ManagerEntry(ret.pre.validators, k)

\* C18 witness: a block that removed one delegator of n1 and added another of
\* the same weight has been accepted; its weight diff for n1 is zero.
C18_Witness ==
    /\ ret.call = "AcceptBlock"
    /\ ~IsNil(ret.val)
    /\ Has(Val(ret.val), <<PrimaryNetworkID, "n1">>)
    /\ Val(ret.val)[<<PrimaryNetworkID, "n1">>].Amount = 0
    /\ disk.weightDiffs # EmptyMap

(***************************************************************************)
(* Claims about sync (checked under SpecSync)                              *)
(***************************************************************************)

\* C19: sync on a database whose 'initialized' marker is set does not take
\* the genesis path: it writes nothing and stages nothing, whatever the
\* genesis, and loads; the database is as it was before the store was opened.
C19_ReopenOnlyLoads ==
    (ret.call = "sync" /\ Val(ret.base).initialized) =>
        /\ ret.err = OK
        /\ disk = Val(ret.base)
        /\ db = disk
        /\ StagingEmpty(Cur)
        /\ chainTime = Val(disk.chainTime)
        /\ lastAcceptedBlkID = Val(disk.lastAccepted)

\* C19 witness: a database that holds more than its genesis - a validator
\* on the subnet, committed - has been opened again with another genesis.
C19_Witness ==
    /\ ret.call = "sync"
    /\ Val(ret.base).initialized
    /\ Has(disk.currentStakers, ValidatorOf("S", "n1").TxID)
    /\ ret.arg[1] # {}

\* The sum of the potential rewards of the stakers.
RECURSIVE RewardSum(_)
RewardSum(stakers) ==
    IF stakers = {} THEN 0
    ELSE LET st == CHOOSE x \in stakers : TRUE
         IN  st.PotentialReward + RewardSum(stakers \ {st})

\* C20: after sync on an empty database with N genesis validators, the
\* current supply of the primary network is the initial supply plus the N
\* potential rewards, GetCurrentValidator finds each of the N nodes on the
\* primary network, and the validator manager holds each of them.
C20_GenesisValidators ==
    (ret.call = "sync" /\ ~Val(ret.base).initialized) =>
        /\ ret.err = OK
        /\ GetCurrentSupply(Cur, PrimaryNetworkID).err = OK
        /\ GetCurrentSupply(Cur, PrimaryNetworkID).val
              = Some(InitialSupply + RewardSum(ret.arg[1]))
        /\ \A st \in ret.arg[1] :
              /\ GetCurrentValidator(Cur, PrimaryNetworkID, st.NodeID).err = OK
              /\ GetCurrentValidator(Cur, PrimaryNetworkID, st.NodeID).val = Some(st)
              /\ Has(validators, VKey(PrimaryNetworkID, st.NodeID))

\* C20 witness: an empty database has been opened with two genesis
\* validators.
C20_Witness ==
    /\ ret.call = "sync"
    /\ ~Val(ret.base).initialized
    /\ Cardinality(ret.arg[1]) = 2
    /\ disk.initialized

(***************************************************************************)
(* Claims about the uptimes (checked under SpecUptime)                     *)
(***************************************************************************)

\* C37 (as stated): after SetUptime(n, s, d, t), whatever GetUptime and
\* SetUptime calls for other subnets of n come in between, GetUptime(n, s)
\* returns (d, t), and the next write persists (d, t) for (n, s) without
\* error.
C37_AsStated ==
    /\ \A subnetID \in DOMAIN hist.snaps :
          /\ GetUptime(Cur, UptimeNode, subnetID).err = OK
          /\ GetUptime(Cur, UptimeNode, subnetID).val = Some(hist.snaps[subnetID])
    /\ ret.call = "Commit" =>
          /\ ret.err = OK
          /\ \A subnetID \in DOMAIN hist.snaps :
                /\ Has(disk.uptimes, <<UptimeNode, subnetID>>)
                /\ disk.uptimes[<<UptimeNode, subnetID>>] = hist.snaps[subnetID]

(***************************************************************************)
(* Claims about the reward UTXOs (checked under SpecRewards)               *)
(***************************************************************************)

\* C38 (as stated): GetRewardUTXOs(txID) returns every reward UTXO ever
\* added for txID, staged or persisted, in whatever commit epochs they were
\* added.
C38_AsStated ==
    \A txID \in DOMAIN hist.snaps :
        /\ GetRewardUTXOs(Cur, txID).err = OK
        /\ Range(Val(GetRewardUTXOs(Cur, txID).val)) = hist.snaps[txID]

(***************************************************************************)
(* Claims about the metadata markers (checked under SpecBatch)             *)
(***************************************************************************)

\* The chain time and the last accepted block that the trie holds are the
\* ones of the store.
MetadataPersisted ==
    /\ disk.chainTime = Some(chainTime)
    /\ disk.lastAccepted = Some(lastAcceptedBlkID)

\* The markers that writeMetadata compares with hold what the trie holds.
MarkersDurable ==
    /\ disk.chainTime = Some(latestComittedChainTime)
    /\ disk.lastAccepted = Some(latestCommittedLastAcceptedBlkID)

\* C39 (as stated): a Commit that succeeds leaves the chain time and the last
\* accepted block of the store in the trie; and after a Commit, or after the
\* batch of a CommitBatch was dropped and Abort called, the latest-committed
\* markers hold only what was durably written.
C39_AsStated ==
    /\ (ret.call = "Commit" /\ ret.err = OK) => MetadataPersisted
    /\ ret.call \in {"Commit", "drop, Abort"} => MarkersDurable

(***************************************************************************)
(* Claims about the caches of the subnets (checked under SpecCaches)       *)
(***************************************************************************)

\* The subnets whose cache getCache keeps.
IsTracked(subnetID) ==
    subnetID = PrimaryNetworkID \/ subnetID \in set.cfg.TrackedSubnets

\* The calls that have an LRU for the subnet.
GetsOf(subnetID) ==
    {c \in GetIDs : set.gets[c].subnetID = subnetID /\ set.gets[c].cache # 0}

\* C33: caches never holds an entry for a subnet that is neither the primary
\* network nor tracked, and a GetValidatorSet for such a subnet never finds
\* its height cached; for a tracked subnet, the calls running side by side
\* make one LRU, which caches holds and all of them read and write.
C33_OneCachePerTrackedSubnet ==
    /\ \A subnetID \in DOMAIN set.caches : IsTracked(subnetID)
    /\ \A subnetID \in SubnetIDs :
          IF IsTracked(subnetID)
          THEN /\ Cardinality({i \in DOMAIN set.lrus :
                                  set.lrus[i].subnetID = subnetID}) <= 1
               /\ \A c \in GetsOf(subnetID) :
                      /\ Has(set.caches, subnetID)
                      /\ set.gets[c].cache = set.caches[subnetID]
          ELSE /\ \A c, d \in GetsOf(subnetID) :
                      c # d => set.gets[c].cache # set.gets[d].cache
               /\ \A c \in GetsOf(subnetID) : ~set.gets[c].hit

\* Two calls for the primary network are building the set at the same time
\* with one LRU, and two calls for a subnet that is not tracked have
\* returned.
C33_Witness ==
    \E c, d, e \in GetIDs :
        /\ c # d
        /\ set.gets[c].subnetID = PrimaryNetworkID
        /\ set.gets[d].subnetID = PrimaryNetworkID
        /\ set.gets[c].pc = "build"
        /\ set.gets[d].pc = "build"
        /\ set.gets[c].cache = set.gets[d].cache
        /\ ~IsTracked(set.gets[e].subnetID)
        /\ set.gets[e].pc = "done"
        /\ set.gets[e].err = OK

(***************************************************************************)
(* Claims about the network client (checked under SpecNet)                 *)
(***************************************************************************)

\* The calls that have returned.
DoneCalls == {c \in CallIDs : net.calls[c].pc = "done"}

C34_HandlerInvokedOnce ==
    /\ \A c \in CallIDs : net.calls[c].invoked <= 1
    /\ \A requestID \in RequestIDs, response \in ResponseBytes :
          LET a == AppResponse(net, requestID, response)
              f == AppRequestFailed(net, requestID)
          IN  IF Has(net.outstandingRequestHandlers, requestID)
              THEN LET c == net.outstandingRequestHandlers[requestID]
                   IN  /\ ~Has(a.outstandingRequestHandlers, requestID)
                       /\ ~Has(f.outstandingRequestHandlers, requestID)
                       /\ a.calls[c].handler.responseChan = Some(response)
                       /\ f.calls[c].handler.failed
                       /\ AppResponse(a, requestID, response) = a
                       /\ AppRequestFailed(a, requestID) = a
                       /\ AppResponse(f, requestID, response) = f
                       /\ AppRequestFailed(f, requestID) = f
              ELSE a = net /\ f = net

\* The handler of a call that waits has been invoked and is registered no
\* more, while the handler of another call is.
C34_Witness ==
    \E c, d \in CallIDs :
        /\ net.calls[c].pc = "wait"
        /\ net.calls[c].invoked = 1
        /\ ~Has(net.outstandingRequestHandlers, net.calls[c].requestID)
        /\ net.calls[d].pc = "wait"
        /\ Has(net.outstandingRequestHandlers, net.calls[d].requestID)

\* The calls in flight: their request is sent and they have not returned.
InFlight == {c \in CallIDs : net.calls[c].pc = "wait"}

\* C35 (as stated): a callback for a request in flight that has had none
\* finds the handler of that request, and two requests in flight at the
\* same time never share a request ID.
C35_AsStated ==
    /\ \A c \in InFlight :
          net.calls[c].invoked = 0 =>
              /\ Has(net.outstandingRequestHandlers, net.calls[c].requestID)
              /\ net.outstandingRequestHandlers[net.calls[c].requestID] = c
    /\ \A c, d \in InFlight :
          c # d => net.calls[c].requestID # net.calls[d].requestID

\* The calls that hold a slot of the semaphore: Acquire gave them one and
\* they have not returned.
SlotHolders == {c \in CallIDs : net.calls[c].acquired /\ net.calls[c].pc # "done"}

\* The calls whose handler is registered.
Registered ==
    {net.outstandingRequestHandlers[r] : r \in DOMAIN net.outstandingRequestHandlers}

\* C36 (as stated): once Request or RequestAny has returned, its slot of the
\* semaphore is released and its handler is registered no more; the
\* handlers registered are never more than the requests in flight, which
\* are never more than maxActiveRequests.
C36_AsStated ==
    /\ net.activeRequests = Cardinality(SlotHolders)
    /\ \A c \in DoneCalls : c \notin Registered
    /\ Cardinality(DOMAIN net.outstandingRequestHandlers) <= Cardinality(InFlight)
    /\ Cardinality(InFlight) <= maxActiveRequests

(***************************************************************************)
(* Claims about the lists of subnets and chains (checked under SpecChains) *)
(***************************************************************************)

\* The number of times a sequence holds a value.
Occurrences(seq, v) == Cardinality({i \in DOMAIN seq : seq[i] = v})

\* C27 (as stated): once AddChain(tx) for a subnet was followed by a Commit
\* that succeeded, GetChains of the subnet contains tx, whatever came
\* before, a GetChains of the subnet before the AddChain included.
C27_AsStated ==
    \A tx \in ChainTxs \cap hist.live :
        tx \in Range(Val(GetChains(Cur, tx[2]).val))

\* C28 (as stated): once AddSubnet(tx) was followed by a Commit that
\* succeeded, GetSubnets contains tx exactly once, whatever came before, a
\* GetSubnets before the AddSubnet or between AddSubnet and Commit included.
C28_AsStated ==
    \A tx \in SubnetTxs \cap hist.live :
        Occurrences(Val(GetSubnets(Cur).val), tx) = 1

(***************************************************************************)
(* Claims about the staker iterators (checked under SpecIter)              *)
(***************************************************************************)

\* The live stakers of a staker set: every node's validator and delegators.
LiveStakers(bs) ==
    UNION {LET e == Get2(bs.validators, k[1], k[2], NewBaseStaker)
           IN  (IF IsNil(e.validator) THEN {} ELSE {Val(e.validator)})
                   \cup e.delegators :
           k \in StakerKeys}

\* A staker iterator yields the live stakers of its set, each once, in
\* strictly ascending (EndTime, TxID) order.
YieldsLiveStakers(bs) ==
    LET it == GetStakerIterator(bs.stakers)
    IN  /\ Range(it) = LiveStakers(bs)
        /\ Len(it) = Cardinality(LiveStakers(bs))
        /\ \A i \in 1..(Len(it) - 1) :
              \/ EndTime(it[i]) < EndTime(it[i + 1])
              \/ /\ EndTime(it[i]) = EndTime(it[i + 1])
                 /\ TxRank(it[i].TxID) < TxRank(it[i + 1].TxID)

\* C26: after every sequence of Put and Delete of validators and delegators,
\* committed or not, and after load, the current and the pending staker
\* iterator yield every live staker exactly once, in strictly ascending
\* (EndTime, TxID) order.
C26_IteratorsSorted ==
    YieldsLiveStakers(currentStakers) /\ YieldsLiveStakers(pendingStakers)

\* Three current stakers, two of them ending together, one of them put and
\* not committed, and a pending one.
C26_Witness ==
    /\ Len(GetStakerIterator(currentStakers.stakers)) >= 3
    /\ Len(GetStakerIterator(pendingStakers.stakers)) >= 1
    /\ currentStakers.validatorDiffs # EmptyMap
    /\ ret.call = "PutCurrent"

(***************************************************************************)
(* Claims about the backward replay (checked under SpecReplay)             *)
(***************************************************************************)

\* The diffs of a subnet the log holds from startHeight down to endHeight,
\* as <<height, node>>, the highest first.
LoggedDiffs(s, startHeight, endHeight, subnetID) ==
    SelectSeq(DiffIter(s, MaxHeight, 1, subnetID),
              LAMBDA k : endHeight <= k[1] /\ k[1] <= startHeight)

\* The first n diffs of a sequence.
FirstDiffs(keys, n) == SubSeq(keys, 1, IF n < Len(keys) THEN n ELSE Len(keys))

\* The diffs applied one after the other, up to the first error.
RECURSIVE AppliedInOrder(_, _, _, _)
AppliedInOrder(acc, s, keys, subnetID) ==
    IF keys = <<>> \/ acc.err # OK THEN acc
    ELSE AppliedInOrder(
            applyWeightDiff(acc.val, Head(keys)[2],
                s.db.weightDiffs[<<subnetID, Head(keys)[1], Head(keys)[2]>>]),
            s, Tail(keys), subnetID)

\* C25 (as stated): a cancelled context stops the backward replay before the
\* next diff, or the next height, is applied, and the context's error is
\* returned: by ApplyValidatorWeightDiffs, and by the per-height loop of
\* GetValidatorSet.
C25_AsStated ==
    /\ (/\ ret.call = "ApplyValidatorWeightDiffs"
        /\ ret.arg[1].cancels) =>
          LET keys == LoggedDiffs(Cur, ret.arg[3], ret.arg[4], ret.arg[5])
              before == AppliedInOrder([val |-> ret.arg[2], err |-> OK], Cur,
                                       FirstDiffs(keys, ret.arg[1].cancelAfter),
                                       ret.arg[5])
          IN  (Len(keys) > ret.arg[1].cancelAfter /\ before.err = OK) =>
                  /\ ret.err = ErrCanceled
                  /\ ret.val = Some(before.val)
    /\ (/\ ret.call = "GetValidatorSet"
        /\ ret.arg[1] = WithCancel(0)
        /\ ~Has(Val(ret.base), <<ret.arg[3], ret.arg[2]>>)
        /\ ret.arg[2] < lastAcceptedHeight) =>
          ret.err = ErrCanceled

\* The weight diffs of a subnet the database holds at the heights from
\* endHeight to startHeight, as <<height, node>>.
PersistedDiffs(s, startHeight, endHeight, subnetID) ==
    {<<k[2], k[3]>> : k \in {j \in DOMAIN s.db.weightDiffs :
                                /\ j[1] = subnetID
                                /\ endHeight <= j[2]
                                /\ j[2] <= startHeight}}

\* The place of a node in the order of the keys.
NodeRank(nodeID) == CHOOSE i \in 1..Len(NodeOrder) : NodeOrder[i] = nodeID

\* A set of diffs as a sequence: each once, the highest first, and by node
\* within a height.
RECURSIVE Descending(_)
Descending(keys) ==
    IF keys = {} THEN <<>>
    ELSE LET top == CHOOSE k \in keys : \A j \in keys :
                        \/ j[1] < k[1]
                        \/ j[1] = k[1] /\ NodeRank(j[2]) >= NodeRank(k[2])
         IN  <<top>> \o Descending(keys \ {top})

\* C30: ApplyValidatorWeightDiffs(ctx, vdrs, startHeight, endHeight, subnetID)
\* under a context that is not cancelled applies exactly the persisted weight
\* diffs of subnetID at the heights from endHeight to startHeight, each once,
\* the highest first and up to the first one that fails, and no diff of
\* another subnet; with startHeight < endHeight it applies none and leaves
\* vdrs as it was.
C30_AppliesLoggedDiffs ==
    (/\ ret.call = "ApplyValidatorWeightDiffs"
     /\ ~ret.arg[1].cancels) =>
        LET vdrs == ret.arg[2]
            startHeight == ret.arg[3]
            endHeight == ret.arg[4]
            subnetID == ret.arg[5]
            applied == AppliedInOrder([val |-> vdrs, err |-> OK], Cur,
                          Descending(PersistedDiffs(Cur, startHeight,
                                                    endHeight, subnetID)),
                          subnetID)
        IN  /\ ret.err = applied.err
            /\ ret.val = Some(applied.val)
            /\ startHeight < endHeight =>
                  /\ ret.err = OK
                  /\ ret.val = Some(vdrs)

\* A replay has applied two diffs of a subnet and left out a diff of the
\* subnet above startHeight or below endHeight, and the diffs of another
\* subnet.
C30_Witness ==
    /\ ret.call = "ApplyValidatorWeightDiffs"
    /\ ~ret.arg[1].cancels
    /\ ret.err = OK
    /\ ret.val # Some(ret.arg[2])
    /\ Cardinality(PersistedDiffs(Cur, ret.arg[3], ret.arg[4], ret.arg[5])) >= 2
    /\ \/ PersistedDiffs(Cur, MaxHeight, ret.arg[3] + 1, ret.arg[5]) # {}
       \/ PersistedDiffs(Cur, ret.arg[4] - 1, 0, ret.arg[5]) # {}
    /\ \E k \in DOMAIN Cur.db.weightDiffs : k[1] # ret.arg[5]

(***************************************************************************)
(* Claims about the recently-accepted window (checked under SpecTrack)     *)
(***************************************************************************)

\* The entries of the window that have not outlived the TTL.
Unexpired(w, now) ==
    SelectSeq(w, LAMBDA e : now - e.entryTime <= recentlyAcceptedWindowTTL)

\* C24: GetMinimumHeight returns what GetCurrentHeight returns when
\* cfg.UseCurrentHeight is set or the window holds no unexpired block, and
\* otherwise the height of the oldest unexpired block of the window minus 1;
\* Track puts the block ID into the window as its newest entry, adds no
\* other, and leaves every result of GetCurrentHeight and GetValidatorSet
\* as it was.
C24_MinimumHeight ==
    /\ ret.call = "GetMinimumHeight" =>
          LET live == Unexpired(set.recentlyAccepted, set.clk)
              cur == CurrentHeight(GetCurrentHeight(Cur), set)
          IN  IF set.cfg.UseCurrentHeight \/ live = <<>>
              THEN ret.err = cur.err /\ ret.val = Some(cur.val)
              ELSE ret.err = OK /\ ret.val = Some(Height(Head(live).value) - 1)
    /\ ret.call = "Track" =>
          /\ QueryResults = Val(ret.val)
          /\ set.recentlyAccepted # <<>>
          /\ set.recentlyAccepted[Len(set.recentlyAccepted)].value = ret.arg[1]
          /\ \A i \in 1..(Len(set.recentlyAccepted) - 1) :
                set.recentlyAccepted[i] \in Range(Val(ret.base))

\* GetMinimumHeight has answered from a window of two tracked blocks: the
\* height before the older one, which is below the current height.
C24_Witness ==
    /\ ret.call = "GetMinimumHeight"
    /\ ~set.cfg.UseCurrentHeight
    /\ Len(set.recentlyAccepted) = 2
    /\ ret.err = OK
    /\ Val(ret.val) + 1 < lastAcceptedHeight

RECURSIVE WeightSum(_)
WeightSum(stakers) ==
    IF stakers = {} THEN 0
    ELSE LET st == CHOOSE x \in stakers : TRUE
         IN  st.Weight + WeightSum(stakers \ {st})

\* The manager holds, for every subnet and node, the weight of the node's
\* current stakers, and no node without a current validator.
ManagerMatchesStakers(s) ==
    \A k \in StakerKeys :
        LET e == Get2(s.currentStakers.validators, k[1], k[2], NewBaseStaker)
        IN  IF IsNil(e.validator)
            THEN IsNil(ManagerEntry(s.validators, k))
            ELSE /\ ~IsNil(ManagerEntry(s.validators, k))
                 /\ Val(ManagerEntry(s.validators, k)).Weight =
                        WeightSum({Val(e.validator)} \cup e.delegators)

\* C23 (as stated): after every Commit that succeeds the manager's weight of
\* every (subnet, node) is the weight of the node's current validator plus
\* the weights of its current delegators in the staker set, and a node with
\* no current validator is absent from the manager.
C23_AsStated ==
    (ret.call = "Commit" /\ ret.err = OK) => ManagerMatchesStakers(Cur)

C22_AsStated ==
    (ret.call = "sync" /\ ~IsNil(ret.val)) =>
        /\ ret.err = OK
        /\ Loaded(Cur) = Val(ret.val)

(***************************************************************************)
(* Claims about the genesis input (checked under SpecGenesis)              *)
(***************************************************************************)

\* C21 (as stated): when any transaction of the genesis - a validator's or
\* a chain's - carries a network ID other than the context's, sync on an
\* empty database fails with ErrWrongNetworkID and the database is not
\* marked initialised.
C21_AsStated ==
    (/\ ret.call = "sync"
     /\ ~Val(ret.base).initialized
     /\ \E txID \in GenesisTxs(ret.arg[1]) :
            ret.arg[1].NetworkID[txID] # NetworkID) =>
        /\ ret.err = ErrWrongNetworkID
        /\ ~disk.initialized

(***************************************************************************)
(* Claims about ValidatorWeightDiff.Add (checked under SpecWD)             *)
(***************************************************************************)

\* The value Add has to store when the signs differ.
SignedResult(l) == AbsDiff(l.pre.Amount, l.amount)

\* C7 (as stated): an Add that returns no error adds the amounts when the
\* signs match and otherwise stores their absolute difference, the sign
\* flipping to `negative` only when amount is strictly larger than the old
\* Amount (kept when they are equal).
C7_AsStated ==
    (wdLast.called /\ ~wdLast.err) =>
        IF wdLast.pre.Decrease = wdLast.negative
        THEN /\ wdLast.post.Amount = wdLast.pre.Amount + wdLast.amount
             /\ wdLast.post.Decrease = wdLast.pre.Decrease
        ELSE /\ wdLast.post.Amount = SignedResult(wdLast)
             /\ wdLast.post.Decrease =
                    IF wdLast.amount > wdLast.pre.Amount
                    THEN wdLast.negative
                    ELSE wdLast.pre.Decrease

\* C7 (amended): as above, but the sign becomes `negative` whenever amount is
\* larger than or equal to the old Amount; it is kept only when the old
\* Amount is strictly larger.
C7_AddRule ==
    (wdLast.called /\ ~wdLast.err) =>
        IF wdLast.pre.Decrease = wdLast.negative
        THEN /\ wdLast.post.Amount = wdLast.pre.Amount + wdLast.amount
             /\ wdLast.post.Decrease = wdLast.pre.Decrease
        ELSE /\ wdLast.post.Amount = SignedResult(wdLast)
             /\ wdLast.post.Decrease =
                    IF wdLast.amount >= wdLast.pre.Amount
                    THEN wdLast.negative
                    ELSE wdLast.pre.Decrease

\* C7 witness: an Add of the opposite sign whose amount equals the old Amount.
C7_Witness ==
    /\ wdLast.called
    /\ ~wdLast.err
    /\ wdLast.pre.Decrease # wdLast.negative
    /\ wdLast.amount = wdLast.pre.Amount
    /\ wdLast.amount > 0
    /\ wdLast.post.Decrease = wdLast.negative

BothRunsDone ==
    /\ wdA.n = NumOps
    /\ wdB.n = NumOps
    /\ ~wdA.err
    /\ ~wdB.err

\* C8 (as stated): the same Add calls, none failing, give the same diff in
\* every order: same Amount and same Decrease flag.
C8_AsStated == BothRunsDone => wdA.v = wdB.v

\* C8 (amended): the same Add calls, none failing, give the same Amount in
\* every order, and the same Decrease flag whenever that Amount is not zero.
C8_OrderIndependent ==
    BothRunsDone =>
        /\ wdA.v.Amount = wdB.v.Amount
        /\ (wdA.v.Amount # 0 => wdA.v.Decrease = wdB.v.Decrease)

\* C8 witness: two orders of the same calls that both end on a zero Amount,
\* with different flags.
C8_Witness ==
    /\ BothRunsDone
    /\ wdA.v.Amount = 0
    /\ wdB.v.Amount = 0
    /\ wdA.v.Decrease # wdB.v.Decrease

\* C9: Add fails exactly when the signs match and the sum exceeds the largest
\* unsigned value; a call that does not fail stores the exact sum or
\* difference, which is in range.
C9_OverflowExactly ==
    wdLast.called =>
        /\ wdLast.err <=>
               /\ wdLast.pre.Decrease = wdLast.negative
               /\ wdLast.pre.Amount + wdLast.amount > MaxUint64
        /\ wdLast.post.Amount \in 0..MaxUint64
        /\ ~wdLast.err =>
               wdLast.post.Amount =
                   IF wdLast.pre.Decrease = wdLast.negative
                   THEN wdLast.pre.Amount + wdLast.amount
                   ELSE SignedResult(wdLast)

\* C9 witness: an Add that failed with an overflow.
C9_Witness ==
    /\ wdLast.called
    /\ wdLast.err
    /\ wdLast.pre.Amount + wdLast.amount > MaxUint64

====
